---- MODULE Spec2Model ----
(***************************************************************************)
(* print-check-cli: the command handler of src/index.ts (option merging,   *)
(* check selection, the file loop, severity overrides, exit code) as a     *)
(* state machine, with the pure helpers it calls as operators.             *)
(*                                                                         *)
(* Conventions.  An optional JavaScript value is a sequence of length 0    *)
(* (undefined) or 1.  A number is an integer count of tenths, so 2.5 is    *)
(* 25 and the profile value 300 is 3000.  A command-line number is the     *)
(* text the user typed, a sequence of characters, and is converted the way *)
(* z.coerce.number() does it.  A comma-separated command-line list is the  *)
(* sequence of its comma-separated pieces.                                 *)
(***************************************************************************)
EXTENDS Integers, Sequences, FiniteSets, TLC

\* ------------------------------------------------------------- bounds
\* Most file arguments of one invocation.
MaxFiles == 2
\* Most details one check result carries.
MaxDetails == 1
\* Most check executions of one invocation whose outcome is not the clean one.
MaxFindings == 1
\* Most check executions of one invocation: files times selected checks.
MaxCalls == 8
\* Details of a result handed to applySeverityOverride directly.
MaxOverrideDetails == 2
\* Successive applications of applySeverityOverride to one result.
MaxApplications == 2
\* Pages of a document handed to one check function directly.
MaxPages == 2

\* image placements a page may hold
MaxPlacements == 2

\* drawing operations a page may hold
MaxOps == 2

\* entries of an OutputIntents array
MaxIntents == 2

\* ------------------------------------------------------------- values
None == <<>>
Some(v) == <<v>>
IsSome(o) == Len(o) = 1
Get(o) == o[1]

\* One tenth is the unit of every number of the model.
Num(n) == n * 10

Statuses == {"pass", "warn", "fail"}

Rank(s) == CASE s = "pass" -> 0 [] s = "warn" -> 1 [] s = "fail" -> 2

RECURSIVE WorstOf(_)
\* The status the checks accumulate in worstStatus: the maximum over the
\* details pushed, pass when there is none.
WorstOf(details) ==
  IF details = <<>> THEN "pass"
  ELSE LET rest == WorstOf(Tail(details))
           s    == Head(details).status
       IN IF Rank(s) >= Rank(rest) THEN s ELSE rest

\* ------------------------------------------------------------- registry
ALL_CHECKS == <<"bleed", "fonts", "colorspace", "resolution", "pdfx", "tac",
                "transparency", "pagesize">>

RegisteredKeys == {ALL_CHECKS[i] : i \in DOMAIN ALL_CHECKS}

\* Names every object literal inherits from Object.prototype; the model keeps
\* one of them.  ALL_CHECKS[name] is truthy for these too.
InheritedKeys == {"constructor"}

\* ALL_CHECKS[name] as the filter and the call site see it.
Lookup(name) ==
  IF name \in RegisteredKeys THEN "check"
  ELSE IF name \in InheritedKeys THEN "inherited"
  ELSE "undefined"

\* The check field each check function puts in its result.
DisplayName(key) ==
  CASE key = "bleed" -> "Bleed & Trim"
    [] key = "fonts" -> "Fonts"
    [] key = "colorspace" -> "Color Space"
    [] key = "resolution" -> "Resolution"
    [] key = "pdfx" -> "PDF/X Compliance"
    [] key = "tac" -> "Total Ink Coverage"
    [] key = "transparency" -> "Transparency"
    [] key = "pagesize" -> "Page Size"

\* ------------------------------------------------------------- profiles
PROFILE_NAMES == {"standard", "magazine", "newspaper", "large-format"}

PROFILES(p) ==
  CASE p = "standard" ->
         [minDpi |-> Num(300), colorSpace |-> "cmyk", bleedMm |-> Num(3),
          maxTac |-> Num(300), pageSize |-> None]
    [] p = "magazine" ->
         [minDpi |-> Num(300), colorSpace |-> "cmyk", bleedMm |-> Num(5),
          maxTac |-> Num(300), pageSize |-> None]
    [] p = "newspaper" ->
         [minDpi |-> Num(150), colorSpace |-> "any", bleedMm |-> Num(0),
          maxTac |-> Num(240), pageSize |-> None]
    [] p = "large-format" ->
         [minDpi |-> Num(150), colorSpace |-> "cmyk", bleedMm |-> Num(5),
          maxTac |-> Num(300), pageSize |-> None]

\* ------------------------------------------------------------- severity
\* Objects live in a heap, a sequence indexed by reference, so that "a new
\* object" and "the same object" differ.  A result object holds the
\* references of its detail objects.
Alloc(result) ==
  [heap |-> [i \in 1..Len(result.details) |-> result.details[i]]
            \o <<[result EXCEPT !.details = [i \in DOMAIN result.details |-> i]]>>,
   ref  |-> Len(result.details) + 1]

Deref(h, r) ==
  [h[r] EXCEPT !.details = [i \in DOMAIN h[r].details |-> h[h[r].details[i]]]]

\* A warn override that rewrites every result that is not warn, pass included.
applySeverityOverrideRef_AlwaysWarn(h, r, override) ==
  IF override = Some("warn") /\ h[r].status # "warn"
  THEN [heap |-> h \o <<[h[r] EXCEPT !.status = "warn"]>>, ref |-> Len(h) + 1]
  ELSE [heap |-> h, ref |-> r]

\* The override written into the objects given: no new object.
applySeverityOverrideRef_InPlace(h, r, override) ==
  IF override = Some("warn") /\ h[r].status = "fail"
  THEN [heap |-> [i \in DOMAIN h |->
                    IF i = r \/ (i \in {h[r].details[j] : j \in DOMAIN h[r].details}
                                 /\ h[i].status = "fail")
                    THEN [h[i] EXCEPT !.status = "warn"] ELSE h[i]],
        ref  |-> r]
  ELSE [heap |-> h, ref |-> r]

\* applySeverityOverride(result, override) on references: the heap after the
\* call and the reference returned.  The warn branch builds a new result
\* object ({ ...result, status, details }), a new detail object for every
\* fail detail ({ ...d, status }) and keeps the other detail objects.
applySeverityOverrideRef(h, r, override) ==
  IF ~IsSome(override) \/ override = Some("fail") THEN [heap |-> h, ref |-> r]
  ELSE IF override = Some("warn") /\ h[r].status = "fail"
       THEN LET old     == h[r].details
                changed == {i \in DOMAIN old : h[old[i]].status = "fail"}
                nth(i)  == Cardinality({j \in changed : j <= i})
                copies  == [n \in 1..Cardinality(changed) |->
                              LET i == CHOOSE i \in changed : nth(i) = n
                              IN [h[old[i]] EXCEPT !.status = "warn"]]
                details == [i \in DOMAIN old |->
                              IF i \in changed THEN Len(h) + nth(i) ELSE old[i]]
                h1      == h \o copies
            IN [heap |-> h1 \o <<[h[r] EXCEPT !.status = "warn",
                                              !.details = details]>>,
                ref  |-> Len(h1) + 1]
       ELSE [heap |-> h, ref |-> r]

\* applySeverityOverride(result, override) on values.
applySeverityOverride(result, override) ==
  LET in  == Alloc(result)
      out == applySeverityOverrideRef(in.heap, in.ref, override)
  IN Deref(out.heap, out.ref)

\* ------------------------------------------------------------- parsing
Digits == {"0", "1", "2", "3", "4", "5", "6", "7", "8", "9"}

DigitVal(c) ==
  CASE c = "0" -> 0 [] c = "1" -> 1 [] c = "2" -> 2 [] c = "3" -> 3
    [] c = "4" -> 4 [] c = "5" -> 5 [] c = "6" -> 6 [] c = "7" -> 7
    [] c = "8" -> 8 [] c = "9" -> 9

RECURSIVE IntVal(_)
\* Value of a run of decimal digits, 0 for the empty run.
IntVal(ds) ==
  IF ds = <<>> THEN 0
  ELSE IntVal(SubSeq(ds, 1, Len(ds) - 1)) * 10 + DigitVal(ds[Len(ds)])

AllDigits(ds) == \A i \in DOMAIN ds : ds[i] \in Digits

\* Number(text) as z.coerce.number() applies it to a command-line string:
\* the empty string is 0, an optionally signed decimal literal is its value,
\* anything else is NaN, which zod rejects: None.  Texts of the model carry
\* at most one fractional digit, so the value is exact in tenths.
ToNumber(text) ==
  IF text = <<>> THEN Some(0)
  ELSE
    LET neg  == Head(text) = "-"
        body == IF neg THEN Tail(text) ELSE text
        dots == {i \in DOMAIN body : body[i] = "."}
        dot  == IF dots = {} THEN Len(body) + 1
                ELSE CHOOSE i \in dots : \A j \in dots : i <= j
        ip   == SubSeq(body, 1, dot - 1)
        fp   == SubSeq(body, dot + 1, Len(body))
        ok   == /\ Cardinality(dots) <= 1
                /\ AllDigits(ip) /\ AllDigits(fp)
                /\ Len(ip) + Len(fp) >= 1
        mag  == IntVal(ip) * 10 + (IF fp = <<>> THEN 0 ELSE DigitVal(fp[1]))
    IN IF ~ok THEN None ELSE Some(IF neg THEN 0 - mag ELSE mag)

\* String.prototype.trim on the pieces of a list; the model's padded pieces.
Trim(s) ==
  CASE s = " fonts" -> "fonts"
    [] s = " all" -> "all"
    [] OTHER -> s

EmptyMap == [k \in {} |-> "fail"]

\* { ...a, ...b }
Spread(a, b) ==
  [k \in DOMAIN a \cup DOMAIN b |-> IF k \in DOMAIN b THEN b[k] ELSE a[k]]

RECURSIVE parseSeverityPairs(_, _)
parseSeverityPairs(pairs, result) ==
  IF pairs = <<>> THEN result
  ELSE LET pair  == Head(pairs)
           check == IF Len(pair) >= 1 THEN Trim(pair[1]) ELSE ""
           level == IF Len(pair) >= 2 THEN Trim(pair[2]) ELSE ""
       IN parseSeverityPairs(
            Tail(pairs),
            IF check # "" /\ level # ""
            THEN Spread(result, [k \in {check} |-> level])
            ELSE result)

\* parseSeverityString(val); val is the list of the comma-separated pieces,
\* each the list of its colon-separated pieces.  "" is << <<"">> >>.
parseSeverityString(val) ==
  IF val = << <<"">> >> THEN EmptyMap
  ELSE parseSeverityPairs(val, EmptyMap)

\* ------------------------------------------------------------- options
OptionKeys == {"minDpi", "colorSpace", "bleed", "maxTac", "pageSize", "checks",
               "verbose", "format", "profile", "severity"}

NoOptions == [k \in OptionKeys |-> None]

SeverityLevels == {"fail", "warn", "off"}

\* ConfigSchema.safeParse(raw).success for the raw values of the model
\* (numbers, strings and booleans of the right JSON type).
ConfigSchemaOk(raw) ==
  /\ IsSome(raw.minDpi) => Get(raw.minDpi) % 10 = 0 /\ Get(raw.minDpi) > 0
  /\ IsSome(raw.colorSpace) => Get(raw.colorSpace) \in {"cmyk", "any"}
  /\ IsSome(raw.bleed) => Get(raw.bleed) >= 0
  /\ IsSome(raw.maxTac) => Get(raw.maxTac) > 0
  /\ IsSome(raw.format) => Get(raw.format) \in {"text", "json"}
  /\ IsSome(raw.profile) => Get(raw.profile) \in PROFILE_NAMES
  /\ IsSome(raw.severity) =>
       \A k \in DOMAIN Get(raw.severity) : Get(raw.severity)[k] \in SeverityLevels

\* program.option(...): what commander hands the action as rawOpts.  An
\* option declared with a default value is always present.
CommanderOpts(args) ==
  [args EXCEPT
     !.checks  = IF IsSome(args.checks) THEN args.checks ELSE Some(<<"all">>),
     !.verbose = IF IsSome(args.verbose) THEN args.verbose ELSE Some(FALSE),
     !.format  = IF IsSome(args.format) THEN args.format ELSE Some("text")]

\* A command-line number is text, a config-file number is a number.
Text(o) == IF IsSome(o) THEN Some([kind |-> "text", val |-> Get(o)]) ELSE None
Number(o) == IF IsSome(o) THEN Some([kind |-> "num", val |-> Get(o)]) ELSE None

\* stripped: rawOpts without its undefined entries, in the merged form.
Stripped(rawOpts) ==
  [rawOpts EXCEPT !.minDpi = Text(@), !.bleed = Text(@), !.maxTac = Text(@)]

ConfigOptions(config) ==
  IF IsSome(config)
  THEN [Get(config) EXCEPT !.minDpi = Number(@), !.bleed = Number(@),
                           !.maxTac = Number(@)]
  ELSE NoOptions

\* The spread in the other order: { ...cliSeverity, ...configSeverity }
MergedSeverity_ConfigWins(config, rawOpts) ==
  LET configSeverity == IF IsSome(config) /\ IsSome(Get(config).severity)
                        THEN Get(Get(config).severity) ELSE EmptyMap
      cliSeverity    == IF IsSome(rawOpts.severity)
                        THEN parseSeverityString(Get(rawOpts.severity))
                        ELSE EmptyMap
  IN Spread(cliSeverity, configSeverity)

\* mergedSeverity of the action.
MergedSeverity(config, rawOpts) ==
  LET configSeverity == IF IsSome(config) /\ IsSome(Get(config).severity)
                        THEN Get(Get(config).severity) ELSE EmptyMap
      cliSeverity    == IF IsSome(rawOpts.severity)
                        THEN parseSeverityString(Get(rawOpts.severity))
                        ELSE EmptyMap
  IN Spread(configSeverity, cliSeverity)

\* merged = { ...config?.options, ...stripped, severity: ... }
Merged(config, rawOpts) ==
  LET c  == ConfigOptions(config)
      s  == Stripped(rawOpts)
      ms == MergedSeverity(config, rawOpts)
  IN [k \in OptionKeys |->
        IF k = "severity" THEN (IF DOMAIN ms # {} THEN Some(ms) ELSE None)
        ELSE IF IsSome(s[k]) THEN s[k] ELSE c[k]]

\* z.coerce.number() on a merged value: None when the result is NaN.
Coerce(x) == IF x.kind = "text" THEN ToNumber(x.val) ELSE Some(x.val)

\* The checks transform of OptionsSchema.
ChecksTransform(val) ==
  IF val = <<"all">> THEN ALL_CHECKS
  ELSE [i \in DOMAIN val |-> Trim(val[i])]

\* The schema with nonnegative() where it says positive().
OptionsSchemaOk_ZeroAllowed(m) ==
  /\ IsSome(m.minDpi) =>
       LET n == Coerce(Get(m.minDpi))
       IN IsSome(n) /\ Get(n) % 10 = 0 /\ Get(n) >= 0
  /\ IsSome(m.colorSpace) => Get(m.colorSpace) \in {"cmyk", "any"}
  /\ IsSome(m.bleed) =>
       LET n == Coerce(Get(m.bleed)) IN IsSome(n) /\ Get(n) >= 0
  /\ IsSome(m.maxTac) =>
       LET n == Coerce(Get(m.maxTac)) IN IsSome(n) /\ Get(n) >= 0
  /\ IsSome(m.format) => Get(m.format) \in {"text", "json"}
  /\ IsSome(m.profile) => Get(m.profile) \in PROFILE_NAMES
  /\ IsSome(m.severity) =>
       \A k \in DOMAIN Get(m.severity) : Get(m.severity)[k] \in SeverityLevels

\* OptionsSchema.safeParse(merged).success
OptionsSchemaOk(m) ==
  /\ IsSome(m.minDpi) =>
       LET n == Coerce(Get(m.minDpi))
       IN IsSome(n) /\ Get(n) % 10 = 0 /\ Get(n) > 0
  /\ IsSome(m.colorSpace) => Get(m.colorSpace) \in {"cmyk", "any"}
  /\ IsSome(m.bleed) =>
       LET n == Coerce(Get(m.bleed)) IN IsSome(n) /\ Get(n) >= 0
  /\ IsSome(m.maxTac) =>
       LET n == Coerce(Get(m.maxTac)) IN IsSome(n) /\ Get(n) > 0
  /\ IsSome(m.format) => Get(m.format) \in {"text", "json"}
  /\ IsSome(m.profile) => Get(m.profile) \in PROFILE_NAMES
  /\ IsSome(m.severity) =>
       \A k \in DOMAIN Get(m.severity) : Get(m.severity)[k] \in SeverityLevels

\* OptionsSchema.safeParse(merged).data, for a merged value that parses.
OptionsSchemaData(m) ==
  [minDpi     |-> IF IsSome(m.minDpi) THEN Coerce(Get(m.minDpi)) ELSE None,
   colorSpace |-> m.colorSpace,
   bleed      |-> IF IsSome(m.bleed) THEN Coerce(Get(m.bleed)) ELSE None,
   maxTac     |-> IF IsSome(m.maxTac) THEN Coerce(Get(m.maxTac)) ELSE None,
   pageSize   |-> m.pageSize,
   checks     |-> ChecksTransform(IF IsSome(m.checks) THEN Get(m.checks)
                                  ELSE <<"all">>),
   verbose    |-> IF IsSome(m.verbose) THEN Get(m.verbose) ELSE FALSE,
   format     |-> IF IsSome(m.format) THEN Get(m.format) ELSE "text",
   profile    |-> m.profile,
   severity   |-> IF IsSome(m.severity) THEN Get(m.severity) ELSE EmptyMap]

\* The fallbacks written with || : a bleed of 0 counts as not given.
BuildCheckOptions_Falsy(o) ==
  LET base == IF IsSome(o.profile) THEN PROFILES(Get(o.profile))
              ELSE PROFILES("standard")
  IN [minDpi     |-> IF IsSome(o.minDpi) THEN Get(o.minDpi) ELSE base.minDpi,
      colorSpace |-> IF IsSome(o.colorSpace) THEN Get(o.colorSpace)
                     ELSE base.colorSpace,
      bleedMm    |-> IF IsSome(o.bleed) /\ Get(o.bleed) # 0 THEN Get(o.bleed)
                     ELSE base.bleedMm,
      maxTac     |-> IF IsSome(o.maxTac) THEN Get(o.maxTac) ELSE base.maxTac,
      pageSize   |-> IF IsSome(o.pageSize) THEN o.pageSize ELSE base.pageSize]

\* checkOptions of the action.
BuildCheckOptions(o) ==
  LET base == IF IsSome(o.profile) THEN PROFILES(Get(o.profile))
              ELSE PROFILES("standard")
  IN [minDpi     |-> IF IsSome(o.minDpi) THEN Get(o.minDpi) ELSE base.minDpi,
      colorSpace |-> IF IsSome(o.colorSpace) THEN Get(o.colorSpace)
                     ELSE base.colorSpace,
      bleedMm    |-> IF IsSome(o.bleed) THEN Get(o.bleed) ELSE base.bleedMm,
      maxTac     |-> IF IsSome(o.maxTac) THEN Get(o.maxTac) ELSE base.maxTac,
      pageSize   |-> IF IsSome(o.pageSize) THEN o.pageSize ELSE base.pageSize]

\* opts.severity[name]
SeverityOf(o, name) ==
  IF name \in DOMAIN o.severity THEN Some(o.severity[name]) ELSE None

\* The filter without its severity test.
KeepCheck_IgnoresOff(o, name) == Lookup(name) # "undefined"

\* checksToRun = opts.checks.filter(...)
KeepCheck(o, name) ==
  /\ Lookup(name) # "undefined"
  /\ SeverityOf(o, name) # Some("off")

ChecksToRun(o) == SelectSeq(o.checks, LAMBDA name : KeepCheck(o, name))

\* The names the filter warns about, in order.
UnknownChecks(o) == SelectSeq(o.checks, LAMBDA name : Lookup(name) = "undefined")

\* ------------------------------------------------------------- checks
\* The details a check pushes, as the list of their statuses.
MkDetails(sts) ==
  [i \in DOMAIN sts |-> [page |-> i, message |-> "finding", status |-> sts[i]]]

StatusSeqs(S) == UNION {[1..n -> S] : n \in 0..MaxDetails}

\* The detail lists each check function can return, by the order and the
\* statuses of its details.push calls.
DetailShapes(key, options) ==
  CASE key = "bleed" -> StatusSeqs(Statuses)
    [] key = "fonts" ->
         {d \in StatusSeqs(Statuses) :
            \A i, j \in DOMAIN d : i < j => Rank(d[i]) >= Rank(d[j])}
    [] key = "colorspace" ->
         IF options.colorSpace = "any" THEN {<<>>} ELSE StatusSeqs(Statuses)
    [] key = "resolution" -> StatusSeqs(Statuses)
    [] key = "pdfx" -> StatusSeqs({"pass"}) \ {<<>>}
    [] key = "tac" -> StatusSeqs(Statuses)
    [] key = "transparency" -> StatusSeqs({"warn"})
    [] key = "pagesize" ->
         {d \in StatusSeqs(Statuses) \ {<<>>} :
            \/ \A i \in DOMAIN d : d[i] \in {"pass", "fail"}
            \/ d[1] = "pass" /\ \A i \in DOMAIN d : d[i] \in {"pass", "warn"}}

\* What a check returns on a one-page document with nothing to report.
CleanShape(key) ==
  IF key \in {"bleed", "pdfx", "pagesize"} THEN <<"pass">> ELSE <<>>

\* Every check returns { check, status: worstStatus, summary, details }.
CheckReturn(key, sts) ==
  LET details == MkDetails(sts)
  IN [check |-> DisplayName(key), status |-> WorstOf(details),
      summary |-> <<"summary">>, details |-> details]

\* The messages of the exceptions a check can raise.
ErrorTexts == {"cannot load page", "not a dictionary"}

\* The catch branch without the error text.
SyntheticFail_NoText(name, message) ==
  [check |-> name, status |-> "fail", summary |-> <<"Error: ">>,
   details |-> <<>>]

\* The catch branch of the check loop.
SyntheticFail(name, message) ==
  [check |-> name, status |-> "fail", summary |-> <<"Error: ", message>>,
   details |-> <<>>]

\* What calling an inherited member as a check yields: a value with no check,
\* status, summary or details property (Object(engines) is engines).
NotAResult ==
  [check |-> "undefined", status |-> "undefined", summary |-> <<>>,
   details |-> <<>>]

\* buildJsonReport(fileName, results)
buildJsonReport(file, results) ==
  LET count(st) == Cardinality({i \in DOMAIN results : results[i].status = st})
  IN [file |-> file, results |-> results,
      summary |-> [passed |-> count("pass"), warned |-> count("warn"),
                   failed |-> count("fail")]]

\* ------------------------------------------------------------- state
VARIABLES
  argv,         \* the command line: [opts, files], files the number of file arguments
  configFile,   \* the content of the config file found, None when there is none
  pc,           \* where the action is
  config,       \* what loadConfig returned
  opts,         \* parsed.data
  checkOptions,
  checksToRun,
  warned,       \* the names console.warn reported as unknown
  fileIdx,      \* index of the file the loop is at
  fileState,    \* per file argument: pending, missing, loaded, loadError, reported
  checkIdx,     \* index in checksToRun of the next check
  results,      \* results of the current file
  calls,        \* every check call made so far: [file, name, threw, raw, result]
  printed,      \* the reports printReport wrote, in order
  allReports,
  jsonOut,      \* what the final console.log wrote in json mode
  anyFail,
  exit,         \* None while running, else [code, by]
  findings,     \* check outcomes so far that were not the clean one
  heap,         \* the objects of a direct use of applySeverityOverride
  given,        \* its arguments: [ref, override]
  applications, \* its calls so far: [before, arg, after, ret]
  document,     \* the document and options of a direct call of one check
  checked       \* what that call returned, None before it

vars == <<argv, configFile, pc, config, opts, checkOptions, checksToRun, warned,
          fileIdx, fileState, checkIdx, results, calls, printed, allReports,
          jsonOut, anyFail, exit, findings, heap, given, applications,
          document, checked>>

\* What a run of the action never writes.
inputs == <<argv, configFile, heap, given, applications, document, checked>>

Exit(code) == Some([code |-> code, by |-> "process.exit"])
\* An exception that leaves the async action is an unhandled rejection: Node
\* prints it and ends the process with code 1.
Uncaught == Some([code |-> 1, by |-> "uncaught"])

Files == 1..argv.files

\* ------------------------------------------------------------- actions
\* const config = await loadConfig()
LoadConfig ==
  /\ pc = "loadConfig"
  /\ IF IsSome(configFile) /\ ~ConfigSchemaOk(Get(configFile))
     THEN /\ pc' = "exited"
          /\ exit' = Exit(1)
          /\ UNCHANGED config
     ELSE /\ pc' = "resolve"
          /\ config' = configFile
          /\ UNCHANGED exit
  /\ UNCHANGED <<inputs, opts, checkOptions, checksToRun, warned, fileIdx,
                 fileState, checkIdx, results, calls, printed, allReports,
                 jsonOut, anyFail, findings>>

\* stripped, mergedSeverity, merged, safeParse, base, checkOptions
ResolveOptions ==
  /\ pc = "resolve"
  /\ LET merged == Merged(config, CommanderOpts(argv.opts))
     IN IF ~OptionsSchemaOk(merged)
        THEN /\ pc' = "exited"
             /\ exit' = Exit(1)
             /\ UNCHANGED <<opts, checkOptions>>
        ELSE /\ pc' = "select"
             /\ opts' = Some(OptionsSchemaData(merged))
             /\ checkOptions' = Some(BuildCheckOptions(OptionsSchemaData(merged)))
             /\ UNCHANGED exit
  /\ UNCHANGED <<inputs, config, checksToRun, warned, fileIdx, fileState,
                 checkIdx, results, calls, printed, allReports, jsonOut,
                 anyFail, findings>>

\* checksToRun = opts.checks.filter(...); exit when it is empty
SelectChecks ==
  /\ pc = "select"
  /\ checksToRun' = ChecksToRun(Get(opts))
  /\ warned' = UnknownChecks(Get(opts))
  /\ Len(ChecksToRun(Get(opts))) * argv.files <= MaxCalls
  /\ IF ChecksToRun(Get(opts)) = <<>>
     THEN pc' = "exited" /\ exit' = Exit(1)
     ELSE pc' = "file" /\ UNCHANGED exit
  /\ UNCHANGED <<inputs, config, opts, checkOptions, fileIdx, fileState,
                 checkIdx, results, calls, printed, allReports, jsonOut,
                 anyFail, findings>>

\* The missing file only reported on stderr.
AnyFailOnMissing_Kept(flag) == flag

\* anyFail = true in the !fs.existsSync(filePath) branch
AnyFailOnMissing(flag) == TRUE

\* !fs.existsSync(filePath): anyFail = true; continue
FileNotFound ==
  /\ pc = "file"
  /\ fileIdx \in Files
  /\ fileState' = [fileState EXCEPT ![fileIdx] = "missing"]
  /\ anyFail' = AnyFailOnMissing(anyFail)
  /\ fileIdx' = fileIdx + 1
  /\ UNCHANGED <<inputs, pc, config, opts, checkOptions, checksToRun, warned,
                 checkIdx, results, calls, printed, allReports, jsonOut, exit,
                 findings>>

\* const engines = await loadPdf(filePath); const results = []
LoadPdf ==
  /\ pc = "file"
  /\ fileIdx \in Files
  /\ fileState' = [fileState EXCEPT ![fileIdx] = "loaded"]
  /\ results' = <<>>
  /\ checkIdx' = 1
  /\ pc' = "check"
  /\ UNCHANGED <<inputs, config, opts, checkOptions, checksToRun, warned,
                 fileIdx, calls, printed, allReports, jsonOut, anyFail, exit,
                 findings>>

\* await loadPdf(filePath) rejects; nothing in the action catches it
LoadPdfThrows ==
  /\ pc = "file"
  /\ fileIdx \in Files
  /\ fileState' = [fileState EXCEPT ![fileIdx] = "loadError"]
  /\ pc' = "exited"
  /\ exit' = Uncaught
  /\ UNCHANGED <<inputs, config, opts, checkOptions, checksToRun, warned,
                 fileIdx, checkIdx, results, calls, printed, allReports,
                 jsonOut, anyFail, findings>>

\* Record that pushes the result of a check twice
Record_Twice(name, threw, raw) ==
  LET result == applySeverityOverride(raw, SeverityOf(Get(opts), name))
  IN /\ results' = Append(Append(results, result), result)
     /\ calls' = Append(calls, [file |-> fileIdx, name |-> name,
                                threw |-> threw, raw |-> raw,
                                result |-> result])
     /\ checkIdx' = checkIdx + 1

\* results.push(applySeverityOverride(raw, opts.severity[name]))
Record(name, threw, raw) ==
  LET result == applySeverityOverride(raw, SeverityOf(Get(opts), name))
  IN /\ results' = Append(results, result)
     /\ calls' = Append(calls, [file |-> fileIdx, name |-> name,
                                threw |-> threw, raw |-> raw,
                                result |-> result])
     /\ checkIdx' = checkIdx + 1

\* try { raw = await ALL_CHECKS[name](engines, checkOptions); results.push(...) }
CheckReturns ==
  /\ pc = "check"
  /\ checkIdx \in DOMAIN checksToRun
  /\ LET name == checksToRun[checkIdx]
     IN IF Lookup(name) = "inherited"
        THEN Record(name, FALSE, NotAResult) /\ UNCHANGED findings
        ELSE \E sts \in DetailShapes(name, Get(checkOptions)) :
               /\ Record(name, FALSE, CheckReturn(name, sts))
               /\ findings' = IF sts = CleanShape(name) THEN findings
                              ELSE findings + 1
               /\ findings' <= MaxFindings
  /\ UNCHANGED <<inputs, pc, config, opts, checkOptions, checksToRun, warned,
                 fileIdx, fileState, printed, allReports, jsonOut, anyFail,
                 exit>>

\* catch (err) { raw = { check: name, status: "fail", ... }; results.push(...) }
CheckThrows ==
  /\ pc = "check"
  /\ checkIdx \in DOMAIN checksToRun
  /\ Lookup(checksToRun[checkIdx]) = "check"
  /\ findings < MaxFindings
  /\ findings' = findings + 1
  /\ \E message \in ErrorTexts :
       Record(checksToRun[checkIdx], TRUE,
              SyntheticFail(checksToRun[checkIdx], message))
  /\ UNCHANGED <<inputs, pc, config, opts, checkOptions, checksToRun, warned,
                 fileIdx, fileState, printed, allReports, jsonOut, anyFail,
                 exit>>

\* The flag assigned instead of raised: anyFail = results.some(...)
NextAnyFail_Overwrites(flag, rs) == \E i \in DOMAIN rs : rs[i].status = "fail"

\* if (results.some((r) => r.status === "fail")) anyFail = true
NextAnyFail(flag, rs) == flag \/ \E i \in DOMAIN rs : rs[i].status = "fail"

\* process.exit(anyFail ? 1 : 0)
ExitCode(flag) == IF flag THEN 1 ELSE 0

\* printReport reads result.check.padEnd: a TypeError on a value without check
PrintReportThrows == \E i \in DOMAIN results : results[i] = NotAResult

\* if (results.some(...)) anyFail = true; buildJsonReport or printReport
ReportFile ==
  /\ pc = "check"
  /\ checkIdx = Len(checksToRun) + 1
  /\ anyFail' = NextAnyFail(anyFail, results)
  /\ IF Get(opts).format = "json"
     THEN /\ allReports' = Append(allReports, buildJsonReport(fileIdx, results))
          /\ fileState' = [fileState EXCEPT ![fileIdx] = "reported"]
          /\ fileIdx' = fileIdx + 1
          /\ pc' = "file"
          /\ UNCHANGED <<printed, exit>>
     ELSE IF PrintReportThrows
          THEN /\ pc' = "exited"
               /\ exit' = Uncaught
               /\ UNCHANGED <<printed, allReports, fileState, fileIdx>>
          ELSE /\ printed' = Append(printed, [file |-> fileIdx,
                                              results |-> results])
               /\ fileState' = [fileState EXCEPT ![fileIdx] = "reported"]
               /\ fileIdx' = fileIdx + 1
               /\ pc' = "file"
               /\ UNCHANGED <<allReports, exit>>
  /\ UNCHANGED <<inputs, config, opts, checkOptions, checksToRun, warned,
                 checkIdx, results, calls, jsonOut, findings>>

\* JSON.stringify of a report that holds the engines object instead of a
\* result may or may not throw (a cycle or a value JSON cannot write).
StringifyThrows ==
  /\ pc = "file"
  /\ fileIdx = argv.files + 1
  /\ Get(opts).format = "json"
  /\ \E i \in DOMAIN allReports : \E j \in DOMAIN allReports[i].results :
       allReports[i].results[j] = NotAResult
  /\ pc' = "exited"
  /\ exit' = Uncaught
  /\ UNCHANGED <<inputs, config, opts, checkOptions, checksToRun, warned,
                 fileIdx, fileState, checkIdx, results, calls, printed,
                 allReports, jsonOut, anyFail, findings>>

\* the final console.log(JSON.stringify(...)) and process.exit(anyFail ? 1 : 0)
Finish ==
  /\ pc = "file"
  /\ fileIdx = argv.files + 1
  /\ jsonOut' = IF Get(opts).format = "json"
                THEN (IF Len(allReports) = 1
                      THEN Some([kind |-> "object", value |-> <<allReports[1]>>])
                      ELSE Some([kind |-> "array", value |-> allReports]))
                ELSE None
  /\ exit' = Exit(ExitCode(anyFail))
  /\ pc' = "exited"
  /\ UNCHANGED <<inputs, config, opts, checkOptions, checksToRun, warned,
                 fileIdx, fileState, checkIdx, results, calls, printed,
                 allReports, anyFail, findings>>

Next ==
  \/ LoadConfig
  \/ ResolveOptions
  \/ SelectChecks
  \/ FileNotFound
  \/ LoadPdf
  \/ LoadPdfThrows
  \/ CheckReturns
  \/ CheckThrows
  \/ ReportFile
  \/ StringifyThrows
  \/ Finish

\* ------------------------------------------------------------- inputs
Start(a, c) ==
  /\ argv = a
  /\ configFile = c
  /\ pc = "loadConfig"
  /\ config = None
  /\ opts = None
  /\ checkOptions = None
  /\ checksToRun = <<>>
  /\ warned = <<>>
  /\ fileIdx = 1
  /\ fileState = [i \in 1..a.files |-> "pending"]
  /\ checkIdx = 1
  /\ results = <<>>
  /\ calls = <<>>
  /\ printed = <<>>
  /\ allReports = <<>>
  /\ jsonOut = None
  /\ anyFail = FALSE
  /\ exit = None
  /\ findings = 0

\* Optional values over a set.
Opt(S) == {None} \cup {Some(v) : v \in S}

With(base, k, o) == [base EXCEPT ![k] = o]

Input(o, c) == [opts |-> o, config |-> c]

\* No config file when the config sets nothing here, else the file's content.
File(c) == IF c = NoOptions THEN None ELSE Some(c)

\* Values a command line gives one option, as typed.
CliValues(f) ==
  CASE f = "minDpi" -> {<<"1", "5", "0">>, <<"7", "2">>}
    [] f = "colorSpace" -> {"any", "cmyk"}
    [] f = "bleed" -> {<<"0">>, <<"2", ".", "5">>}
    [] f = "maxTac" -> {<<"2", "8", "0">>}
    [] f = "pageSize" -> {"210x297", ""}

\* Values a config file gives one option.
ConfigValues(f) ==
  CASE f = "minDpi" -> {Num(200)}
    [] f = "colorSpace" -> {"any", "cmyk"}
    [] f = "bleed" -> {Num(4)}
    [] f = "maxTac" -> {Num(260)}
    [] f = "pageSize" -> {"100x100"}

ThresholdKeys == {"minDpi", "colorSpace", "bleed", "maxTac", "pageSize"}

\* One threshold option on the command line and/or in the config file, with
\* a profile named on the command line and/or in the config file.
PrecedenceInputs ==
  UNION {
    {Input(With(With(With(NoOptions, f, cv), "profile", cp),
                "checks", Some(<<"colorspace">>)),
           File(With(With(NoOptions, f, kv), "profile", kp))) :
       cv \in Opt(CliValues(f)), kv \in Opt(ConfigValues(f)),
       cp \in Opt({"newspaper", "magazine"}),
       kp \in Opt({"large-format"})} :
    f \in ThresholdKeys}

\* checks, format and verbose on the command line and/or in the config file.
DefaultsInputs ==
  {Input(With(NoOptions, "checks", cv),
         Some(With(NoOptions, "checks", kv))) :
     cv \in Opt({<<"fonts">>, <<"tac", "pdfx">>}),
     kv \in Opt({<<"bleed", "fonts", "colorspace">>, <<"pdfx">>})}
  \cup
  {Input(With(With(NoOptions, "format", cv), "checks", Some(<<"fonts", "pdfx">>)),
         Some(With(NoOptions, "format", kv))) :
     cv \in Opt({"text", "json"}), kv \in Opt({"text", "json"})}
  \cup
  {Input(With(With(NoOptions, "verbose", cv), "checks", Some(<<"fonts">>)),
         Some(With(NoOptions, "verbose", kv))) :
     cv \in Opt({TRUE}), kv \in Opt({TRUE, FALSE})}

\* --severity strings, as their comma- and colon-separated pieces.
CliSeverities ==
  {<< <<"fonts", "warn">> >>,
   << <<"fonts", "off">> >>,
   << <<"fonts", "fail">> >>,
   << <<"tac", "warn">>, <<"fonts", "off">> >>,
   << <<"fonts", "off">>, <<"fonts", "warn">> >>,
   << <<"fonts">>, <<"tac", "">> >>,
   << <<"fonts", "off">>, <<"tac", "off">> >>,
   << <<"">> >>}

ConfigSeverities ==
  {[k \in {"fonts"} |-> "warn"],
   [k \in {"fonts"} |-> "off"],
   [k \in {"fonts", "tac"} |-> IF k = "fonts" THEN "fail" ELSE "warn"],
   [k \in {"bogus"} |-> "off"]}

SeverityInputs ==
  {Input(With(With(With(NoOptions, "severity", cv), "checks", ch), "format", fm),
         File(With(NoOptions, "severity", kv))) :
     cv \in Opt(CliSeverities), kv \in Opt(ConfigSeverities),
     ch \in {Some(<<"fonts", "tac">>)}, fm \in Opt({"json"})}
  \cup
  {Input(With(NoOptions, "severity", cv), None) :
     cv \in {Some(<< <<"fonts", "warn">> >>), Some(<< <<"pdfx", "off">> >>)}}

\* --checks strings, as their comma-separated pieces.
SelectionInputs ==
  {Input(With(With(With(NoOptions, "checks", Some(ch)), "severity", sv),
              "format", fm), None) :
     ch \in {<<"fonts", "bogus">>, <<"bogus">>, <<"bogus", "tac", "nope">>,
             <<"constructor">>, <<"fonts", "constructor">>, <<"tac", " fonts">>,
             <<" all">>, <<"">>, <<"pagesize", "pagesize">>,
             <<"transparency", "resolution", "bleed">>},
     sv \in Opt({<< <<"fonts", "off">> >>}), fm \in Opt({"json"})}

\* Values the schemas reject, and values next to them that they accept.
ValidationInputs ==
  {Input(With(With(NoOptions, f, Some(v)), "checks", Some(<<"pdfx">>)), None) :
     f \in {"minDpi", "bleed", "maxTac"},
     v \in {<<"0">>, <<"1">>, <<"2", ".", "5">>, <<"-", "1">>, <<"x">>, <<>>,
            <<"-">>, <<"1", ".", "0">>, <<".", "5">>, <<"1", ".", "5", ".">>}}
  \cup
  {Input(With(With(NoOptions, "checks", Some(<<"pdfx">>)), f[1], Some(f[2])),
         None) :
     f \in {<<"colorSpace", "rgb">>, <<"format", "xml">>, <<"profile", "bogus">>,
            <<"profile", "standard">>,
            <<"severity", << <<"fonts", "bogus">> >> >>,
            <<"severity", << <<"bogus", "warn">> >> >>}}
  \cup
  {Input(With(NoOptions, "checks", Some(<<"pdfx">>)),
         Some(With(NoOptions, f[1], Some(f[2])))) :
     f \in {<<"minDpi", 0>>, <<"minDpi", 25>>, <<"minDpi", Num(72)>>,
            <<"bleed", 0 - 10>>, <<"bleed", 0>>, <<"maxTac", 0>>,
            <<"colorSpace", "rgb">>, <<"format", "xml">>,
            <<"profile", "bogus">>,
            <<"severity", [k \in {"fonts"} |-> "bogus"]>>}}

\* Plain runs: no option, or only the output format, with or without an
\* empty config file.
RunInputs ==
  {Input(With(NoOptions, "format", fm), c) :
     fm \in Opt({"json"}), c \in {None, Some(NoOptions)}}
  \cup
  {Input(With(With(NoOptions, "checks", Some(ch)), "format", fm), None) :
     ch \in {<<"fonts", "bleed">>, <<"resolution">>}, fm \in Opt({"json"})}

\* Inputs about how the options resolve: run on one file.
OptionInputs ==
  PrecedenceInputs \cup DefaultsInputs \cup SeverityInputs \cup SelectionInputs
  \cup ValidationInputs

\* Inputs about the batch: run on every number of files.
BatchInputs == RunInputs

\* No direct use of applySeverityOverride is under way.
NoApplication ==
  /\ heap = <<>>
  /\ given = None
  /\ applications = <<>>

\* No direct call of a check function is under way.
NoDocument ==
  /\ document = None
  /\ checked = None

Init ==
  /\ NoDocument
  /\ \/ \E i \in OptionInputs : Start([opts |-> i.opts, files |-> 1], i.config)
     \/ \E i \in BatchInputs, n \in 1..MaxFiles :
          Start([opts |-> i.opts, files |-> n], i.config)
  /\ NoApplication

Spec == Init /\ [][Next]_vars

\* ------------------------------------- applySeverityOverride on its own
\* The results the program hands applySeverityOverride: what a check returns,
\* whose status is the worst of its details, and the catch branch's result.
\* Details carry their position as message, so that their order shows.
SeverityResults ==
  {[check |-> "Fonts", status |-> WorstOf(MkDetails(sts)), summary |-> <<"summary">>,
    details |-> [i \in DOMAIN sts |-> [status |-> sts[i], message |-> i]]] :
     sts \in UNION {[1..n -> Statuses] : n \in 0..MaxOverrideDetails}}
  \cup {SyntheticFail("fonts", m) : m \in ErrorTexts}

\* SeverityOverride | undefined
Overrides == Opt({"fail", "warn", "off"})

\* The action is not running.
Idle ==
  /\ argv = [opts |-> NoOptions, files |-> 0]
  /\ configFile = None
  /\ pc = "idle"
  /\ config = None
  /\ opts = None
  /\ checkOptions = None
  /\ checksToRun = <<>>
  /\ warned = <<>>
  /\ fileIdx = 1
  /\ fileState = <<>>
  /\ checkIdx = 1
  /\ results = <<>>
  /\ calls = <<>>
  /\ printed = <<>>
  /\ allReports = <<>>
  /\ jsonOut = None
  /\ anyFail = FALSE
  /\ exit = None
  /\ findings = 0

SeverityInit ==
  /\ Idle
  /\ NoDocument
  /\ \E r \in SeverityResults, o \in Overrides :
       /\ heap = Alloc(r).heap
       /\ given = Some([ref |-> Alloc(r).ref, override |-> o])
  /\ applications = <<>>

\* applySeverityOverride(x, override), x the result given at first and then
\* the result the call before returned.
Apply ==
  /\ IsSome(given)
  /\ Len(applications) < MaxApplications
  /\ LET arg == IF applications = <<>> THEN Get(given).ref
                ELSE applications[Len(applications)].ret
         out == applySeverityOverrideRef(heap, arg, Get(given).override)
     IN /\ heap' = out.heap
        /\ applications' = Append(applications,
                                  [before |-> heap, arg |-> arg,
                                   after |-> out.heap, ret |-> out.ref])
  /\ UNCHANGED <<argv, configFile, pc, config, opts, checkOptions, checksToRun,
                 warned, fileIdx, fileState, checkIdx, results, calls, printed,
                 allReports, jsonOut, anyFail, exit, findings, given,
                 document, checked>>

SeverityNext == Apply

SpecSeverity == SeverityInit /\ [][SeverityNext]_vars

\* ------------------------------------------------ checkFonts on its own
UpperCase ==
  {"A", "B", "C", "D", "E", "F", "G", "H", "I", "J", "K", "L", "M", "N", "O",
   "P", "Q", "R", "S", "T", "U", "V", "W", "X", "Y", "Z"}

\* /^[A-Z]{6}\+/.test(name), a name being the sequence of its characters (a
\* run of characters that holds no + may stand as one element).
IsSubsetName(name) ==
  /\ Len(name) >= 7
  /\ \A i \in 1..6 : name[i] \in UpperCase
  /\ name[7] = "+"

\* hasEmbeddedFile(descriptor), a descriptor being the set of its keys.
hasEmbeddedFile(descriptor) ==
  /\ IsSome(descriptor)
  /\ \/ "FontFile" \in Get(descriptor)
     \/ "FontFile2" \in Get(descriptor)
     \/ "FontFile3" \in Get(descriptor)

\* safeName(safeGet(font, "BaseFont")) ?? key
BaseFontName(font) ==
  IF IsSome(font.baseFont) THEN Get(font.baseFont) ELSE font.key

\* The FontInfo entries collectFonts pushes for one entry of a font
\* dictionary that is not yet in seen.
FontInfos(font, pageNum) ==
  IF font.subtype = "Type0"
  THEN [i \in DOMAIN font.descendants |->
          LET cidFont == font.descendants[i]
              cidName == IF IsSome(cidFont.baseFont) THEN Get(cidFont.baseFont)
                         ELSE BaseFontName(font)
          IN [name |-> cidName, embedded |-> hasEmbeddedFile(cidFont.descriptor),
              subset |-> IsSubsetName(cidName), page |-> pageNum]]
  ELSE <<[name |-> BaseFontName(font),
          embedded |-> hasEmbeddedFile(font.descriptor),
          subset |-> IsSubsetName(BaseFontName(font)), page |-> pageNum]>>

RECURSIVE collectFonts(_, _, _)
\* collectFonts(fontDict, pageNum, seen): the fonts found and seen after it.
collectFonts(fontDict, pageNum, seen) ==
  IF fontDict = <<>> THEN [fonts |-> <<>>, seen |-> seen]
  ELSE LET font == Head(fontDict)
           name == BaseFontName(font)
           rest == collectFonts(Tail(fontDict), pageNum, seen \cup {name})
       IN IF name \in seen
          THEN collectFonts(Tail(fontDict), pageNum, seen)
          ELSE [fonts |-> FontInfos(font, pageNum) \o rest.fonts,
                seen |-> rest.seen]

RECURSIVE AllFonts(_, _, _)
\* The page loop of checkFonts from page i on: allFonts.push(...pageFonts)
AllFonts(pages, i, seen) ==
  IF i > Len(pages) THEN <<>>
  ELSE LET found == collectFonts(pages[i], i, seen)
       IN found.fonts \o AllFonts(pages, i + 1, found.seen)

FontDetail(font, text, st) ==
  [page |-> font.page, message |-> <<"Font ", font.name, text>>, status |-> st]

\* checkFonts(engines), the document being the font dictionaries of its pages
checkFonts(pages) ==
  LET allFonts    == AllFonts(pages, 1, {})
      notEmbedded == SelectSeq(allFonts, LAMBDA f : ~f.embedded)
      subsetOnly  == SelectSeq(allFonts, LAMBDA f : f.embedded /\ f.subset)
      full        == SelectSeq(allFonts, LAMBDA f : f.embedded /\ ~f.subset)
      details     ==
        [i \in DOMAIN notEmbedded |->
           FontDetail(notEmbedded[i], " is not embedded", "fail")]
        \o [i \in DOMAIN subsetOnly |->
              FontDetail(subsetOnly[i], " is subset-embedded", "warn")]
        \o [i \in DOMAIN full |->
              FontDetail(full[i], " is fully embedded", "pass")]
      worstStatus == IF notEmbedded # <<>> THEN "fail"
                     ELSE IF subsetOnly # <<>> THEN "warn" ELSE "pass"
  IN [check |-> "Fonts", status |-> worstStatus,
      summary |-> IF worstStatus = "fail"
                  THEN <<Len(notEmbedded), " font(s) not embedded">>
                  ELSE <<Len(subsetOnly) + Len(full), " fonts embedded (",
                         Len(subsetOnly), " subset)">>,
      details |-> details]

\* Font names: plain, subset-prefixed, with a prefix of five letters, with a
\* lower-case letter in the prefix, and a composite font's name with its CMap.
FontNames ==
  {<<"Arial">>,
   <<"A", "B", "C", "D", "E", "F", "+", "Arial">>,
   <<"A", "B", "C", "D", "E", "+", "Arial">>,
   <<"a", "B", "C", "D", "E", "F", "+", "Arial">>,
   <<"Arial-Identity-H">>, <<"Arial-Identity-V">>}

\* Font descriptors, as the set of their keys; None is no descriptor.
FontDescriptors ==
  Opt({{"Flags"}, {"Flags", "FontFile"}, {"Flags", "FontFile2"},
       {"Flags", "FontFile3"}})

\* Entries of a page's font dictionary: simple fonts, and composite fonts
\* with no, or with one, descendant font.
FontEntries ==
  {[key |-> <<"F1">>, baseFont |-> Some(n), subtype |-> "TrueType",
    descriptor |-> d, descendants |-> <<>>] :
     n \in FontNames \ {<<"Arial-Identity-H">>, <<"Arial-Identity-V">>},
     d \in FontDescriptors}
  \cup
  {[key |-> <<"F1">>, baseFont |-> None, subtype |-> "Type3",
    descriptor |-> None, descendants |-> <<>>]}
  \cup
  {[key |-> <<"F1">>, baseFont |-> Some(n), subtype |-> "Type0",
    descriptor |-> None,
    descendants |-> <<[baseFont |-> c, descriptor |-> d]>>] :
     n \in {<<"Arial-Identity-H">>, <<"Arial-Identity-V">>, <<"Arial">>},
     c \in Opt({<<"Arial">>, <<"A", "B", "C", "D", "E", "F", "+", "Arial">>}),
     d \in Opt({{"Flags"}, {"Flags", "FontFile3"}})}
  \cup
  {[key |-> <<"F1">>, baseFont |-> Some(<<"Arial-Identity-H">>),
    subtype |-> "Type0", descriptor |-> None, descendants |-> <<>>]}

\* Documents of up to MaxPages pages, each page with no font dictionary or
\* with a font dictionary of one entry.
FontDocuments ==
  UNION {[1..n -> {<<>>} \cup {<<e>> : e \in FontEntries}] : n \in 1..MaxPages}

FontsInit ==
  /\ Idle
  /\ NoApplication
  /\ \E pages \in FontDocuments : document = Some([pages |-> pages])
  /\ checked = None

\* const raw = await checkFonts(engines, checkOptions)
CallCheckFonts ==
  /\ IsSome(document)
  /\ checked = None
  /\ checked' = Some(checkFonts(Get(document).pages))
  /\ UNCHANGED <<argv, configFile, pc, config, opts, checkOptions, checksToRun,
                 warned, fileIdx, fileState, checkIdx, results, calls, printed,
                 allReports, jsonOut, anyFail, exit, findings, heap, given,
                 applications, document>>

FontsNext == CallCheckFonts

SpecFonts == FontsInit /\ [][FontsNext]_vars

\* -------------------------------------------- checkBleedTrim on its own
\* Box coordinates are whole points.  A length in mm is kept exactly, in
\* units of 1/720 mm (one point is 254 units), together with the direction in
\* which the double the code computes lies off it.
\*
\* The whole-point lengths d for which the double product d * (25.4 / 72) is
\* smaller than the double nearest to d * 25.4 / 72 mm, up to 60 points.
RoundsBelow == {27, 45, 54}

\* (a - b) * PT_TO_MM for whole points a - b = d
TimesPtToMm(d) == [exact |-> 254 * d, below |-> d \in RoundsBelow]

\* options.bleedMm, a decimal number of mm, in units of 1/720 mm
Mm(tenths) == 72 * tenths

\* bleed < requiredMm on doubles
IsShort(bleed, requiredMm) ==
  \/ bleed.exact < requiredMm
  \/ bleed.exact = requiredMm /\ bleed.below

\* The detail checkBleedTrim pushes for one page.
BleedDetail(page, pageNum, requiredMm) ==
  LET mediaBox    == page.mediaBox
      trimBox     == page.trimBox
      bleedBox    == page.bleedBox
      hasTrimBox  == trimBox # mediaBox
      hasBleedBox == bleedBox # mediaBox
      refBox      == IF hasBleedBox THEN bleedBox ELSE mediaBox
      bleedLeft   == TimesPtToMm(trimBox.x - refBox.x)
      bleedBottom == TimesPtToMm(trimBox.y - refBox.y)
      bleedRight  == TimesPtToMm(refBox.x + refBox.width
                                 - (trimBox.x + trimBox.width))
      bleedTop    == TimesPtToMm(refBox.y + refBox.height
                                 - (trimBox.y + trimBox.height))
      short       == \E b \in {bleedLeft, bleedBottom, bleedRight, bleedTop} :
                       IsShort(b, requiredMm)
  IN IF ~hasTrimBox /\ ~hasBleedBox
     THEN [page |-> pageNum, message |-> "No TrimBox or BleedBox defined",
           status |-> "warn"]
     ELSE IF ~hasTrimBox
          THEN [page |-> pageNum, message |-> "No TrimBox defined",
                status |-> "warn"]
          ELSE IF short
               THEN [page |-> pageNum, message |-> "Insufficient bleed",
                     status |-> "fail"]
               ELSE [page |-> pageNum, message |-> "Bleed OK",
                     status |-> "pass"]

\* checkBleedTrim(engines, options)
checkBleedTrim(pages, options) ==
  LET details == [i \in DOMAIN pages |->
                    BleedDetail(pages[i], i, options.bleedMm)]
      worstStatus == WorstOf(details)
  IN [check |-> "Bleed & Trim", status |-> worstStatus,
      summary |-> <<CASE worstStatus = "pass" -> "All pages have bleed"
                      [] worstStatus = "warn" ->
                           "TrimBox or BleedBox missing on some pages"
                      [] OTHER -> "Insufficient bleed on some pages">>,
      details |-> details]

\* A box inset from another by l, b, r, t points.
Inset(box, l, b, r, t) ==
  [x |-> box.x + l, y |-> box.y + b,
   width |-> box.width - l - r, height |-> box.height - b - t]

\* Pages: a MediaBox, a BleedBox that is the MediaBox or lies 9 points inside
\* it, and a TrimBox that is the MediaBox or lies inside it by 8 to 36 points
\* a side (9 points are 3.175 mm, 27 points 9.525 mm).
BleedPages ==
  LET media == [x |-> 0, y |-> 0, width |-> 400, height |-> 600]
  IN {[mediaBox |-> media, bleedBox |-> Inset(media, e, e, e, e),
       trimBox |-> Inset(media, i[1], i[2], i[3], i[4])] :
        e \in {0, 9},
        i \in {<<0, 0, 0, 0>>, <<9, 9, 9, 9>>, <<8, 9, 9, 9>>, <<9, 9, 9, 10>>,
               <<27, 27, 27, 27>>, <<27, 27, 26, 27>>, <<36, 36, 36, 36>>,
               <<36, 35, 36, 36>>, <<18, 18, 18, 18>>}}

\* options.bleedMm in tenths of a mm, and 3.175 and 9.525 mm
BleedRequirements == {Mm(0), Mm(30), Mm(50), 254 * 9, 254 * 27}

BleedInit ==
  /\ Idle
  /\ NoApplication
  /\ \E pages \in UNION {[1..n -> BleedPages] : n \in 1..MaxPages},
        r \in BleedRequirements :
       document = Some([pages |-> pages, options |-> [bleedMm |-> r]])
  /\ checked = None

\* const raw = await checkBleedTrim(engines, checkOptions)
CallCheckBleedTrim ==
  /\ IsSome(document)
  /\ checked = None
  /\ checked' = Some(checkBleedTrim(Get(document).pages, Get(document).options))
  /\ UNCHANGED <<argv, configFile, pc, config, opts, checkOptions, checksToRun,
                 warned, fileIdx, fileState, checkIdx, results, calls, printed,
                 allReports, jsonOut, anyFail, exit, findings, heap, given,
                 applications, document>>

SpecBleed == BleedInit /\ [][CallCheckBleedTrim]_vars

\* ---------------------------------------------- checkResolution on its own
\* Matrix entries are whole points and a resolution is kept exactly, as the
\* fraction num / den of whole numbers, together with the direction in which
\* the double the code computes lies off it.
\*
\* The pairs <<pixels, points>> of ResolutionPlacements for which the double
\* pixels / (points / 72) is smaller than 72 * pixels / points: 70 / (21 / 72)
\* is 239.99999999999997 and 66 / (22 / 72) is 215.99999999999997, and on
\* twice the points they are 119.99999999999999 and 107.99999999999999.
QuotientRoundsBelow == {<<70, 21>>, <<66, 22>>, <<70, 42>>, <<66, 44>>}

\* Math.sqrt(a * a + b * b), for columns of whole length
Hypot(a, b) ==
  CHOOSE n \in 0..(a * a + b * b) : n * n = a * a + b * b

\* A resolution taken per point of an inch, whatever the rendered size
DpiAlong_Unscaled(pixels, renderedPt) ==
  IF renderedPt > 0
  THEN [num |-> 72 * pixels, den |-> 72, below |-> FALSE]
  ELSE [num |-> 0, den |-> 1, below |-> FALSE]

\* renderedIn > 0 ? pixels / renderedIn : 0, with renderedIn = renderedPt / 72
DpiAlong(pixels, renderedPt) ==
  IF renderedPt > 0
  THEN [num |-> 72 * pixels, den |-> renderedPt,
        below |-> <<pixels, renderedPt>> \in QuotientRoundsBelow]
  ELSE [num |-> 0, den |-> 1, below |-> FALSE]

\* x < y on doubles
DpiLess(x, y) ==
  \/ x.num * y.den < y.num * x.den
  \/ x.num * y.den = y.num * x.den /\ x.below /\ ~y.below

\* Math.min(dpiX, dpiY)
DpiMin(dpiX, dpiY) == IF DpiLess(dpiY, dpiX) THEN dpiY ELSE dpiX

\* threshold * 0.9, which is exact for the thresholds of ResolutionMinDpis
WarnThreshold(threshold) == [num |-> 9 * threshold, den |-> 10, below |-> FALSE]

\* Math.min(dpiX, dpiY) of one placement
EffectiveDpi(placement) ==
  LET ctm              == placement.ctm
      renderedWidthPt  == Hypot(ctm[1], ctm[2])
      renderedHeightPt == Hypot(ctm[3], ctm[4])
      dpiX             == DpiAlong(placement.pixelWidth, renderedWidthPt)
      dpiY             == DpiAlong(placement.pixelHeight, renderedHeightPt)
  IN DpiMin(dpiX, dpiY)

\* Math.round(effectiveDpi): the nearest whole number, a half going up unless
\* the double lies below it
RoundedDpi(dpi) ==
  LET whole == (2 * dpi.num + dpi.den) \div (2 * dpi.den)
      half  == (2 * dpi.num + dpi.den) % (2 * dpi.den) = 0
  IN IF half /\ dpi.below THEN whole - 1 ELSE whole

\* The details checkResolution pushes for one placement: none for an image
\* without pixels, else one.
PlacementDetails(placement, pageNum, threshold) ==
  LET pixelWidth   == placement.pixelWidth
      pixelHeight  == placement.pixelHeight
      effectiveDpi == EffectiveDpi(placement)
      roundedDpi   == RoundedDpi(effectiveDpi)
      limit        == [num |-> threshold, den |-> 1, below |-> FALSE]
  IN IF pixelWidth = 0 \/ pixelHeight = 0 THEN <<>>
     ELSE IF DpiLess(effectiveDpi, WarnThreshold(threshold))
          THEN <<[page |-> pageNum,
                  message |-> <<pixelWidth, pixelHeight, roundedDpi, "min">>,
                  status |-> "fail"]>>
          ELSE IF DpiLess(effectiveDpi, limit)
               THEN <<[page |-> pageNum,
                       message |-> <<pixelWidth, pixelHeight, roundedDpi,
                                     "near threshold">>,
                       status |-> "warn"]>>
               ELSE <<[page |-> pageNum,
                       message |-> <<pixelWidth, pixelHeight, roundedDpi, "">>,
                       status |-> "pass"]>>

\* for (const { image, ctm } of placements), from the k-th placement on
RECURSIVE PageDetails(_, _, _, _)
PageDetails(placements, k, pageNum, threshold) ==
  IF k > Len(placements) THEN <<>>
  ELSE PlacementDetails(placements[k], pageNum, threshold)
       \o PageDetails(placements, k + 1, pageNum, threshold)

\* for (let i = 0; i < pageCount; i++), from page pageNum on
RECURSIVE ResolutionDetails(_, _, _)
ResolutionDetails(pages, pageNum, threshold) ==
  IF pageNum > Len(pages) THEN <<>>
  ELSE PageDetails(pages[pageNum], 1, pageNum, threshold)
       \o ResolutionDetails(pages, pageNum + 1, threshold)

\* checkResolution(engines, options)
checkResolution(pages, options) ==
  LET details       == ResolutionDetails(pages, 1, options.minDpi)
      worstStatus   == WorstOf(details)
      failedDetails == SelectSeq(details, LAMBDA d : d.status = "fail")
  IN IF Len(details) = 0
     THEN [check |-> "Resolution", status |-> "pass",
           summary |-> <<"No raster images found">>, details |-> <<>>]
     ELSE [check |-> "Resolution", status |-> worstStatus,
           summary |-> CASE worstStatus = "pass" -> <<"All images meet minimum">>
                         [] worstStatus = "warn" ->
                              <<"Some images near DPI threshold">>
                         [] OTHER ->
                              SubSeq(failedDetails, 1,
                                     IF Len(failedDetails) < 3
                                     THEN Len(failedDetails) ELSE 3),
           details |-> details]

\* Images of 70 and 66 pixels a side on 21 and 22 points (240 and 216 DPI), of
\* 300 pixels on an inch, of 300 x 270 pixels on an inch turned by a quarter,
\* without pixels across, drawn with no width, and of 250 pixels on 50 points
\* along a slanted axis; then five of them drawn twice as wide and as high.
ResolutionPlacements ==
  {[pixelWidth |-> 70, pixelHeight |-> 70, ctm |-> <<21, 0, 0, 21>>],
   [pixelWidth |-> 66, pixelHeight |-> 66, ctm |-> <<22, 0, 0, 22>>],
   [pixelWidth |-> 300, pixelHeight |-> 300, ctm |-> <<72, 0, 0, 72>>],
   [pixelWidth |-> 300, pixelHeight |-> 270, ctm |-> <<0, 72, -72, 0>>],
   [pixelWidth |-> 0, pixelHeight |-> 100, ctm |-> <<72, 0, 0, 72>>],
   [pixelWidth |-> 100, pixelHeight |-> 100, ctm |-> <<0, 0, 0, 72>>],
   [pixelWidth |-> 250, pixelHeight |-> 250, ctm |-> <<30, 40, -40, 30>>],
   [pixelWidth |-> 70, pixelHeight |-> 70, ctm |-> <<42, 0, 0, 42>>],
   [pixelWidth |-> 66, pixelHeight |-> 66, ctm |-> <<44, 0, 0, 44>>],
   [pixelWidth |-> 300, pixelHeight |-> 300, ctm |-> <<144, 0, 0, 144>>],
   [pixelWidth |-> 300, pixelHeight |-> 270, ctm |-> <<0, 144, -144, 0>>],
   [pixelWidth |-> 250, pixelHeight |-> 250, ctm |-> <<60, 80, -80, 60>>]}

\* The placement drawn twice as wide and as high: a, b, c, d times two.
Doubled(placement) ==
  [placement EXCEPT !.ctm = <<2 * placement.ctm[1], 2 * placement.ctm[2],
                              2 * placement.ctm[3], 2 * placement.ctm[4]>>]

\* The images a page draws: none, one, one after the 240 DPI image, or an
\* image followed by itself at twice the size.
ResolutionPageContents ==
  LET first == {p \in ResolutionPlacements : p.ctm = <<21, 0, 0, 21>>}
      all   == {<<>>}
               \cup {<<p>> : p \in ResolutionPlacements}
               \cup {<<p, q>> : p \in first, q \in ResolutionPlacements}
               \cup {<<p, Doubled(p)>> :
                       p \in {q \in ResolutionPlacements :
                                Doubled(q) \in ResolutionPlacements}}
  IN {placed \in all : Len(placed) <= MaxPlacements}

\* options.minDpi
ResolutionMinDpis == {240, 300}

ResolutionInit ==
  /\ Idle
  /\ NoApplication
  /\ \E pages \in UNION {[1..n -> ResolutionPageContents] : n \in 1..MaxPages},
        t \in ResolutionMinDpis :
       document = Some([pages |-> pages, options |-> [minDpi |-> t]])
  /\ checked = None

\* const raw = await checkResolution(engines, checkOptions)
CallCheckResolution ==
  /\ IsSome(document)
  /\ checked = None
  /\ checked' = Some(checkResolution(Get(document).pages,
                                     Get(document).options))
  /\ UNCHANGED <<argv, configFile, pc, config, opts, checkOptions, checksToRun,
                 warned, fileIdx, fileState, checkIdx, results, calls, printed,
                 allReports, jsonOut, anyFail, exit, findings, heap, given,
                 applications, document>>

SpecResolution == ResolutionInit /\ [][CallCheckResolution]_vars

\* ----------------------------------------------------- checkTac on its own
\* An ink coverage is kept exactly, in units of 1/51 percent (a sample of an
\* image is a multiple of 1/255 and a channel of a vector colour a multiple of
\* 1/100), together with the side on which the double the code computes lies
\* off it: -1 below, 0 equal, 1 above.
\*
\* The side of (c / 255 + m / 255 + y / 255 + k / 255) * 100 for the samples
\* of TacPixels: <<24, 252, 245, 244>> gives 300.00000000000006.
TacRounding(pixel) ==
  CASE pixel = <<24, 252, 245, 244>> -> 1
    [] pixel = <<204, 179, 179, 230>> -> 1
    [] pixel = <<100, 100, 100, 100>> -> 1
    [] pixel = <<200, 200, 200, 100>> -> -1
    [] OTHER -> 0

\* tac = (c + m + y + k) * 100 for samples[offset .. offset + 3] / 255
PixelTac(pixel) ==
  [exact |-> 20 * (pixel[1] + pixel[2] + pixel[3] + pixel[4]),
   off |-> TacRounding(pixel)]

\* tac = (color[0] + color[1] + color[2] + color[3]) * 100, for channels in
\* hundredths whose sum is computed exactly
VectorTac(color) ==
  [exact |-> 51 * (color[1] + color[2] + color[3] + color[4]), off |-> 0]

NoInk == [exact |-> 0, off |-> 0]

\* x > y on doubles
TacGreater(x, y) ==
  \/ x.exact > y.exact
  \/ x.exact = y.exact /\ x.off > y.off

\* tac > num / den percent, where num / den is computed exactly
TacOver(tac, num, den) ==
  \/ tac.exact * den > 51 * num
  \/ tac.exact * den = 51 * num /\ tac.off > 0

\* The greatest of the coverages recorded: if (tac > max) max = tac
Highest(tacs) == CHOOSE t \in tacs : \A u \in tacs : ~TacGreater(u, t)

\* A sampler that reads every pixel
Step_EveryPixel(totalPixels) == 1

\* A sampler whose step is the quotient rounded up
Step_RoundedUp(totalPixels) ==
  IF (totalPixels + 9999) \div 10000 > 1
  THEN (totalPixels + 9999) \div 10000 ELSE 1

\* step = Math.max(1, Math.floor(totalPixels / 10000))
Step(totalPixels) ==
  IF totalPixels \div 10000 > 1 THEN totalPixels \div 10000 ELSE 1

\* The samples read by for (let px = 0; px < totalPixels; px += step), of an
\* image that is image.ground everywhere but for image.spot at pixel image.at.
SampledPixels(image) ==
  LET totalPixels == image.width * image.height
      step  == Step(totalPixels)
      count == (totalPixels + step - 1) \div step
      hit   == image.at < totalPixels /\ image.at % step = 0
  IN (IF hit THEN {image.spot} ELSE {})
     \cup (IF count > (IF hit THEN 1 ELSE 0) THEN {image.ground} ELSE {})

\* What one drawing operation passes to recordTac, if anything.
RecordedTac(op) ==
  IF op.kind = "fillImage"
  THEN IF op.colorspace # "DeviceCMYK" THEN {}
       ELSE {Highest({NoInk} \cup {PixelTac(px) : px \in SampledPixels(op)})}
  ELSE IF op.colorspace # "DeviceCMYK" THEN {}
       ELSE {VectorTac(op.color)}

\* pageMaxTac after page.runPageContents(device, ...)
PageMaxTac(ops) ==
  Highest({NoInk} \cup UNION {RecordedTac(ops[k]) : k \in DOMAIN ops})

\* Math.round of a coverage
TacRounded(tac) == (2 * tac.exact + 51) \div 102

\* The details checkTac pushes for one page.
TacPageDetails(ops, pageNum, maxTac) ==
  LET pageMaxTac == PageMaxTac(ops)
      status == IF TacOver(pageMaxTac, maxTac, 1) THEN "fail"
                ELSE IF TacOver(pageMaxTac, 9 * maxTac, 10) THEN "warn"
                     ELSE "pass"
  IN IF TacGreater(pageMaxTac, NoInk)
     THEN <<[page |-> pageNum,
             message |-> <<"Max TAC", TacRounded(pageMaxTac), maxTac>>,
             status |-> status]>>
     ELSE <<>>

\* for (let i = 0; i < pageCount; i++), from page pageNum on
RECURSIVE TacDetails(_, _, _)
TacDetails(pages, pageNum, maxTac) ==
  IF pageNum > Len(pages) THEN <<>>
  ELSE TacPageDetails(pages[pageNum], pageNum, maxTac)
       \o TacDetails(pages, pageNum + 1, maxTac)

\* checkTac(engines, options)
checkTac(pages, options) ==
  LET maxTac        == options.maxTac
      details       == TacDetails(pages, 1, maxTac)
      globalMaxTac  == Highest({NoInk} \cup
                               {PageMaxTac(pages[i]) : i \in DOMAIN pages})
      globalMaxPage == IF globalMaxTac = NoInk THEN 1
                       ELSE CHOOSE i \in DOMAIN pages :
                              /\ PageMaxTac(pages[i]) = globalMaxTac
                              /\ \A j \in 1..(i - 1) :
                                   PageMaxTac(pages[j]) # globalMaxTac
  IN [check |-> "Total Ink Coverage", status |-> WorstOf(details),
      summary |-> IF globalMaxTac # NoInk /\ TacOver(globalMaxTac, maxTac, 1)
                  THEN <<"Max TAC", TacRounded(globalMaxTac), globalMaxPage,
                         maxTac>>
                  ELSE <<"All content within TAC limit", maxTac>>,
      details |-> details]

\* CMYK samples of 300 % (three ways), 0 %, 310.6 %, 274.5 % and 156.9 %
TacPixels ==
  {<<24, 252, 245, 244>>, <<255, 255, 255, 0>>, <<0, 0, 0, 0>>,
   <<204, 179, 179, 230>>, <<200, 200, 200, 100>>, <<100, 100, 100, 100>>}

\* Drawing operations: vector colours of 310, 300, 275 and 175 %, an RGB fill,
\* small images, an image of 30000 pixels of which every third is read, and
\* an RGB image.
TacOps ==
  {[kind |-> "fillPath", colorspace |-> "DeviceCMYK",
    color |-> <<80, 70, 70, 90>>],
   [kind |-> "strokeText", colorspace |-> "DeviceCMYK",
    color |-> <<75, 75, 75, 75>>],
   [kind |-> "fillText", colorspace |-> "DeviceCMYK",
    color |-> <<100, 100, 50, 25>>],
   [kind |-> "fillImageMask", colorspace |-> "DeviceCMYK",
    color |-> <<50, 50, 50, 25>>],
   [kind |-> "strokePath", colorspace |-> "DeviceRGB",
    color |-> <<100, 100, 100>>]}
  \cup
  {[kind |-> "fillImage", colorspace |-> i[1], width |-> i[2],
    height |-> i[3], ground |-> i[4], spot |-> i[5], at |-> i[6]] :
     i \in {<<"DeviceCMYK", 2, 2, <<0, 0, 0, 0>>, <<24, 252, 245, 244>>, 3>>,
            <<"DeviceCMYK", 2, 2, <<100, 100, 100, 100>>,
              <<255, 255, 255, 0>>, 0>>,
            <<"DeviceCMYK", 2, 2, <<200, 200, 200, 100>>,
              <<200, 200, 200, 100>>, 0>>,
            <<"DeviceCMYK", 200, 150, <<0, 0, 0, 0>>,
              <<204, 179, 179, 230>>, 1>>,
            <<"DeviceCMYK", 200, 150, <<100, 100, 100, 100>>,
              <<204, 179, 179, 230>>, 3>>,
            <<"DeviceRGB", 2, 2, <<204, 179, 179, 230>>,
              <<204, 179, 179, 230>>, 0>>}}

\* options.maxTac
TacLimits == {200, 300}

TacInit ==
  /\ Idle
  /\ NoApplication
  /\ \E pages \in UNION {[1..n -> UNION {[1..m -> TacOps] : m \in 0..MaxOps}] :
                          n \in 1..MaxPages},
        t \in TacLimits :
       document = Some([pages |-> pages, options |-> [maxTac |-> t]])
  /\ checked = None

\* const raw = await checkTac(engines, checkOptions)
CallCheckTac ==
  /\ IsSome(document)
  /\ checked = None
  /\ checked' = Some(checkTac(Get(document).pages, Get(document).options))
  /\ UNCHANGED <<argv, configFile, pc, config, opts, checkOptions, checksToRun,
                 warned, fileIdx, fileState, checkIdx, results, calls, printed,
                 allReports, jsonOut, anyFail, exit, findings, heap, given,
                 applications, document>>

SpecTac == TacInit /\ [][CallCheckTac]_vars

\* ------------------------------------- the sampling loop of fillImage alone
\* The loop of the fillImage handler, an iteration at a time, on one CMYK
\* image: checked holds px, the number of samples read, the index read last,
\* imageMaxTac, and whether recordTac(imageMaxTac) has been reached.
\*
\* samples[offset .. offset + 3] of the pixel px
PixelAt(image, px) == IF px = image.at THEN image.spot ELSE image.ground

\* Images of 0, 1, 4, 9999, 10000, 10001, 19999, 20000, 20001, 29999, 30000,
\* 39999, 40000 and 1000000 pixels, with the spot on a pixel that is read or
\* on one that is skipped.
SamplingImages ==
  {[kind |-> "fillImage", colorspace |-> "DeviceCMYK", width |-> i[1],
    height |-> i[2], ground |-> <<100, 100, 100, 100>>,
    spot |-> <<204, 179, 179, 230>>, at |-> i[3]] :
     i \in {<<0, 5, 0>>, <<1, 1, 0>>, <<2, 2, 3>>, <<9999, 1, 9998>>,
            <<100, 100, 0>>, <<10001, 1, 10000>>, <<2857, 7, 19998>>,
            <<200, 100, 19999>>, <<20001, 1, 20000>>, <<29999, 1, 29998>>,
            <<200, 150, 3>>, <<39999, 1, 39999>>, <<200, 200, 39999>>,
            <<1000, 1000, 999900>>}}

SamplingInit ==
  /\ Idle
  /\ NoApplication
  /\ \E image \in SamplingImages : document = Some(image)
  /\ checked = None

\* let imageMaxTac = 0; for (let px = 0; ...
StartSampling ==
  /\ IsSome(document)
  /\ checked = None
  /\ checked' = Some([px |-> 0, read |-> 0, index |-> None,
                      imageMaxTac |-> NoInk, done |-> FALSE])
  /\ UNCHANGED <<argv, configFile, pc, config, opts, checkOptions, checksToRun,
                 warned, fileIdx, fileState, checkIdx, results, calls, printed,
                 allReports, jsonOut, anyFail, exit, findings, heap, given,
                 applications, document>>

\* One turn of the loop: px < totalPixels, the body, px += step
ReadSample ==
  /\ IsSome(document)
  /\ IsSome(checked)
  /\ ~Get(checked).done
  /\ LET image       == Get(document)
         totalPixels == image.width * image.height
         step        == Step(totalPixels)
         loop        == Get(checked)
         tac         == PixelTac(PixelAt(image, loop.px))
     IN /\ loop.px < totalPixels
        /\ checked' = Some([px |-> loop.px + step,
                            read |-> loop.read + 1,
                            index |-> Some(loop.px),
                            imageMaxTac |-> IF TacGreater(tac, loop.imageMaxTac)
                                            THEN tac ELSE loop.imageMaxTac,
                            done |-> FALSE])
  /\ UNCHANGED <<argv, configFile, pc, config, opts, checkOptions, checksToRun,
                 warned, fileIdx, fileState, checkIdx, results, calls, printed,
                 allReports, jsonOut, anyFail, exit, findings, heap, given,
                 applications, document>>

\* The loop is left when px < totalPixels fails: recordTac(imageMaxTac)
FinishSampling ==
  /\ IsSome(document)
  /\ IsSome(checked)
  /\ ~Get(checked).done
  /\ ~(Get(checked).px < Get(document).width * Get(document).height)
  /\ checked' = Some([Get(checked) EXCEPT !.done = TRUE])
  /\ UNCHANGED <<argv, configFile, pc, config, opts, checkOptions, checksToRun,
                 warned, fileIdx, fileState, checkIdx, results, calls, printed,
                 allReports, jsonOut, anyFail, exit, findings, heap, given,
                 applications, document>>

SamplingNext == StartSampling \/ ReadSample \/ FinishSampling

SpecSampling == SamplingInit /\ [][SamplingNext]_vars

\* The handler runs to its end once called: nothing in it waits.
SpecSamplingFair == SpecSampling /\ WF_vars(SamplingNext)

\* ----------------------------------------------- checkColorSpace on its own
\* A colour space is [type, deviceN, name]: what getType(), isDeviceN() and
\* getName() answer.  isRGB(), isGray() and isCMYK() compare the type.
\*
\* array.includes(x) || array.push(x)
PushNew(array, x) ==
  IF \E i \in DOMAIN array : array[i] = x THEN array ELSE Append(array, x)

\* classifyColorSpace without the test for neutral colours
classifyColorSpace_NeutralFails(acc, cs, pageNum, source, color) ==
  IF cs.type = "RGB"
  THEN [acc EXCEPT !.rgbPages = PushNew(@, pageNum),
                   !.details = Append(@, [page |-> pageNum,
                                          message |-> <<"RGB", source>>,
                                          status |-> "fail"]),
                   !.worstStatus = "fail"]
  ELSE IF cs.deviceN \/ cs.type = "Separation"
       THEN [acc EXCEPT !.spotColors = PushNew(@, cs.name)]
       ELSE IF cs.type = "Gray" \/ cs.type = "CMYK" THEN acc
            ELSE [acc EXCEPT !.details =
                               Append(@, [page |-> pageNum,
                                          message |-> <<"Unknown color space",
                                                        cs.name, source>>,
                                          status |-> "warn"]),
                             !.worstStatus =
                               IF @ = "pass" THEN "warn" ELSE @]

\* classifyColorSpace(cs, pageNum, source, color), on the details, rgbPages,
\* spotColors and worstStatus it closes over
classifyColorSpace(acc, cs, pageNum, source, color) ==
  IF cs.type = "RGB"
  THEN IF /\ IsSome(color)
          /\ Len(Get(color)) >= 3
          /\ Get(color)[1] = Get(color)[2]
          /\ Get(color)[2] = Get(color)[3]
       THEN acc
       ELSE [acc EXCEPT !.rgbPages = PushNew(@, pageNum),
                        !.details = Append(@, [page |-> pageNum,
                                               message |-> <<"RGB", source>>,
                                               status |-> "fail"]),
                        !.worstStatus = "fail"]
  ELSE IF cs.deviceN
       THEN [acc EXCEPT !.spotColors = PushNew(@, cs.name)]
       ELSE IF cs.type = "Separation"
            THEN [acc EXCEPT !.spotColors = PushNew(@, cs.name)]
            ELSE IF cs.type = "Gray" \/ cs.type = "CMYK" THEN acc
                 ELSE [acc EXCEPT !.details =
                                    Append(@, [page |-> pageNum,
                                               message |->
                                                 <<"Unknown color space",
                                                   cs.name, source>>,
                                               status |-> "warn"]),
                                  !.worstStatus =
                                    IF @ = "pass" THEN "warn" ELSE @]

\* The Device callbacks of checkColorSpace, for one drawing operation.
ColorDevice(acc, op, pageNum) ==
  IF op.kind = "fillImage"
  THEN IF IsSome(op.cs)
       THEN classifyColorSpace(acc, Get(op.cs), pageNum,
                               <<"image", op.width, op.height>>, None)
       ELSE acc
  ELSE classifyColorSpace(acc, Get(op.cs), pageNum,
                          CASE op.kind = "fillPath" -> <<"fill path">>
                            [] op.kind = "strokePath" -> <<"stroke path">>
                            [] op.kind = "fillText" -> <<"fill text">>
                            [] op.kind = "strokeText" -> <<"stroke text">>
                            [] OTHER -> <<"image mask">>,
                          Some(op.color))

\* page.runPageContents(device, ...), from the k-th operation on
RECURSIVE RunPageContents(_, _, _, _)
RunPageContents(acc, ops, k, pageNum) ==
  IF k > Len(ops) THEN acc
  ELSE RunPageContents(ColorDevice(acc, ops[k], pageNum), ops, k + 1, pageNum)

\* for (let i = 0; i < pageCount; i++), from page pageNum on
RECURSIVE WalkPages(_, _, _)
WalkPages(acc, pages, pageNum) ==
  IF pageNum > Len(pages) THEN acc
  ELSE WalkPages(RunPageContents(acc, pages[pageNum], 1, pageNum), pages,
                 pageNum + 1)

\* The details pushed for the document's OutputIntents, from the i-th on: none
\* for an entry that does not resolve.
RECURSIVE IntentDetails(_, _)
IntentDetails(outputIntents, i) ==
  IF i > Len(outputIntents) THEN <<>>
  ELSE (IF IsSome(outputIntents[i])
        THEN <<[message |-> <<"OutputIntent", Get(outputIntents[i]).S,
                              IF IsSome(Get(outputIntents[i]).condition)
                              THEN Get(Get(outputIntents[i]).condition)
                              ELSE "unknown">>,
                status |-> "pass"]>>
        ELSE <<>>)
       \o IntentDetails(outputIntents, i + 1)

\* checkColorSpace(engines, options)
checkColorSpace(doc, options) ==
  IF options.colorSpace = "any"
  THEN [check |-> "Color Space", status |-> "pass",
        summary |-> <<"Color space check skipped (--color-space any)">>,
        details |-> <<>>]
  ELSE LET walked == WalkPages([details |-> IntentDetails(doc.outputIntents, 1),
                                rgbPages |-> <<>>, spotColors |-> <<>>,
                                worstStatus |-> "pass"],
                               doc.pages, 1)
           details == IF Len(walked.spotColors) > 0
                      THEN Append(walked.details,
                                  [message |-> <<"Spot colors found",
                                                 walked.spotColors>>,
                                   status |-> "pass"])
                      ELSE walked.details
       IN [check |-> "Color Space", status |-> walked.worstStatus,
           summary |-> IF walked.worstStatus = "pass"
                       THEN <<"All color spaces are CMYK-compatible">>
                       ELSE IF Len(walked.rgbPages) > 0
                            THEN <<"RGB detected on pages", walked.rgbPages>>
                            ELSE <<"Non-CMYK color spaces detected">>,
           details |-> details]

ColorSpaces ==
  [rgb  |-> [type |-> "RGB", deviceN |-> FALSE, name |-> "DeviceRGB"],
   gray |-> [type |-> "Gray", deviceN |-> FALSE, name |-> "DeviceGray"],
   cmyk |-> [type |-> "CMYK", deviceN |-> FALSE, name |-> "DeviceCMYK"],
   spot |-> [type |-> "Separation", deviceN |-> FALSE,
             name |-> "PANTONE 185 C"],
   many |-> [type |-> "Separation", deviceN |-> TRUE, name |-> "DeviceN"],
   lab  |-> [type |-> "Lab", deviceN |-> FALSE, name |-> "Lab"]]

\* The content of a page: nothing; a red RGB fill, image mask or image; a
\* grey RGB text; an image without a colour space; spot colours; a Lab stroke;
\* CMYK and gray content; and pairs of these.
ColorPageContents ==
  LET vector(kind, cs, color) == [kind |-> kind, cs |-> Some(cs),
                                  color |-> color]
      image(cs) == [kind |-> "fillImage", cs |-> cs, width |-> 100,
                    height |-> 100]
      red   == vector("fillPath", ColorSpaces.rgb, <<100, 0, 0>>)
      grey  == vector("fillText", ColorSpaces.rgb, <<50, 50, 50>>)
      mask  == vector("fillImageMask", ColorSpaces.rgb, <<100, 0, 0>>)
      spot  == vector("strokePath", ColorSpaces.spot, <<100>>)
      many  == vector("fillPath", ColorSpaces.many, <<100, 50>>)
      lab   == vector("strokeText", ColorSpaces.lab, <<50, 0, 0>>)
      black == vector("fillPath", ColorSpaces.cmyk, <<0, 0, 0, 100>>)
  IN {<<>>, <<red>>, <<grey>>, <<mask>>, <<image(Some(ColorSpaces.rgb))>>,
      <<image(None)>>, <<lab>>, <<spot, many>>, <<spot, spot>>,
      <<black, image(Some(ColorSpaces.gray))>>, <<grey, spot>>,
      <<lab, red>>, <<red, lab>>, <<lab, grey>>}

\* The Root's OutputIntents: none, one, or one that does not resolve followed
\* by one without a condition identifier.
ColorOutputIntents ==
  {<<>>,
   <<Some([S |-> "GTS_PDFX", condition |-> Some("FOGRA39")])>>,
   <<None, Some([S |-> "GTS_PDFA1", condition |-> None])>>}

ColorInit ==
  /\ Idle
  /\ NoApplication
  /\ \E pages \in UNION {[1..n -> ColorPageContents] : n \in 1..MaxPages},
        intents \in ColorOutputIntents,
        c \in {"cmyk", "any"} :
       document = Some([pages |-> pages, outputIntents |-> intents,
                        options |-> [colorSpace |-> c]])
  /\ checked = None

\* const raw = await checkColorSpace(engines, checkOptions)
CallCheckColorSpace ==
  /\ IsSome(document)
  /\ checked = None
  /\ checked' = Some(checkColorSpace(Get(document), Get(document).options))
  /\ UNCHANGED <<argv, configFile, pc, config, opts, checkOptions, checksToRun,
                 warned, fileIdx, fileState, checkIdx, results, calls, printed,
                 allReports, jsonOut, anyFail, exit, findings, heap, given,
                 applications, document>>

SpecColorSpace == ColorInit /\ [][CallCheckColorSpace]_vars

\* ------------------------------------------------- checkPageSize on its own
\* Box sizes are whole points.  A length in mm is kept exactly, in units of
\* 1/720 mm, together with the side on which the double the code computes
\* lies off it: -1 below, 0 equal, 1 above.
\*
\* The side of pt * (25.4 / 72) for the box sizes of PageSizePages: 180 points
\* give 63.49999999999999 and 360 points 126.99999999999999, below 63.5 and
\* 127 mm; 184 points alone come out above.
DimRounding(pt) == IF pt = 184 THEN 1 ELSE -1

\* dimToMm(pt)
dimToMm(pt) == [exact |-> 254 * pt, off |-> DimRounding(pt)]

\* withinTolerance(a, b): Math.abs(a - b) <= TOLERANCE_MM on doubles, the
\* difference of two lengths half a millimetre apart being exact
withinTolerance(a, b) ==
  LET diff == IF a.exact > b.exact THEN a.exact - b.exact
              ELSE b.exact - a.exact
  IN /\ ~a.nan /\ ~b.nan
     /\ \/ diff < 360
        \/ diff = 360 /\ (IF a.exact > b.exact THEN a.off <= b.off
                          ELSE b.off <= a.off)

\* fmtMm(mm): mm.toFixed(0)
fmtMm(mm) ==
  LET whole == mm.exact \div 720
      rest  == mm.exact % 720
  IN IF rest > 360 \/ (rest = 360 /\ mm.off >= 0) THEN whole + 1 ELSE whole

\* text.split("x"), of a sequence of characters
RECURSIVE SplitX(_)
SplitX(text) ==
  IF \A i \in DOMAIN text : text[i] # "x" THEN <<text>>
  ELSE LET at == CHOOSE i \in DOMAIN text :
                   text[i] = "x" /\ \A j \in 1..(i - 1) : text[j] # "x"
       IN <<SubSeq(text, 1, at - 1)>> \o SplitX(SubSeq(text, at + 1, Len(text)))

\* The longest run of digits at the head of a text.
RECURSIVE DigitRun(_)
DigitRun(text) ==
  IF text = <<>> \/ Head(text) \notin Digits THEN <<>>
  ELSE <<Head(text)>> \o DigitRun(Tail(text))

\* parseFloat(text), in 1/720 mm: the value of the longest numeric prefix, NaN
\* without one.  Texts of the model carry at most one fractional digit.
parseFloat(text) ==
  LET ip   == DigitRun(text)
      rest == SubSeq(text, Len(ip) + 1, Len(text))
      fp   == IF rest # <<>> /\ Head(rest) = "." THEN DigitRun(Tail(rest))
              ELSE <<>>
  IN IF ip = <<>> /\ fp = <<>>
     THEN [nan |-> TRUE, exact |-> 0, off |-> 0]
     ELSE [nan |-> FALSE,
           exact |-> 720 * IntVal(ip)
                     + (IF fp = <<>> THEN 0 ELSE 72 * DigitVal(fp[1])),
           off |-> 0]

\* pageDims: the size in mm of the TrimBox if it differs from the MediaBox,
\* else of the MediaBox
PageDims(page) ==
  LET mediaBox   == page.mediaBox
      trimBox    == page.trimBox
      hasTrimBox == \/ trimBox.x # mediaBox.x
                    \/ trimBox.y # mediaBox.y
                    \/ trimBox.width # mediaBox.width
                    \/ trimBox.height # mediaBox.height
      box        == IF hasTrimBox THEN trimBox ELSE mediaBox
      w          == dimToMm(box.width)
      h          == dimToMm(box.height)
  IN [wMm |-> [nan |-> FALSE, exact |-> w.exact, off |-> w.off],
      hMm |-> [nan |-> FALSE, exact |-> h.exact, off |-> h.off]]

\* expectedW and expectedH: None for undefined
ExpectedSize(pageSize) ==
  IF IsSome(pageSize) /\ Get(pageSize) # <<>>
                      /\ Len(SplitX(Get(pageSize))) = 2
  THEN Some([w |-> parseFloat(SplitX(Get(pageSize))[1]),
             h |-> parseFloat(SplitX(Get(pageSize))[2])])
  ELSE None

\* The detail checkPageSize pushes for one page.
PageSizeDetail(pageDims, i, expected) ==
  LET wMm == pageDims[i].wMm
      hMm == pageDims[i].hMm
      sizeStr == <<fmtMm(wMm), fmtMm(hMm)>>
  IN IF IsSome(expected)
     THEN IF ~(withinTolerance(wMm, Get(expected).w)
               /\ withinTolerance(hMm, Get(expected).h))
          THEN [page |-> i, message |-> <<i, sizeStr, "expected">>,
                status |-> "fail"]
          ELSE [page |-> i, message |-> <<i, sizeStr>>, status |-> "pass"]
     ELSE IF ~(withinTolerance(wMm, pageDims[1].wMm)
               /\ withinTolerance(hMm, pageDims[1].hMm))
          THEN [page |-> i, message |-> <<i, sizeStr>>, status |-> "warn"]
          ELSE [page |-> i, message |-> <<i, sizeStr>>, status |-> "pass"]

\* checkPageSize(engines, options)
checkPageSize(pages, options) ==
  LET pageDims == [i \in DOMAIN pages |-> PageDims(pages[i])]
      expected == ExpectedSize(options.pageSize)
      details  == [i \in DOMAIN pageDims |->
                     PageSizeDetail(pageDims, i, expected)]
      worstStatus == WorstOf(details)
  IN [check |-> "Page Size", status |-> worstStatus,
      summary |-> CASE worstStatus = "pass" ->
                         <<"All pages are", fmtMm(pageDims[1].wMm),
                           fmtMm(pageDims[1].hMm)>>
                    [] worstStatus = "warn" ->
                         <<"Inconsistent page sizes detected">>
                    [] OTHER -> <<"Page size mismatch">>,
      details |-> details]

\* Pages of 180 x 360 points (63.5 x 127 mm) with and without a MediaBox
\* around them, and of 181 and 184 points across.
PageSizePages ==
  LET box(x, y, w, h) == [x |-> x, y |-> y, width |-> w, height |-> h]
  IN {[mediaBox |-> box(0, 0, 180, 360), trimBox |-> box(0, 0, 180, 360)],
      [mediaBox |-> box(0, 0, 200, 380), trimBox |-> box(10, 10, 180, 360)],
      [mediaBox |-> box(0, 0, 181, 360), trimBox |-> box(0, 0, 181, 360)],
      [mediaBox |-> box(0, 0, 184, 360), trimBox |-> box(0, 0, 184, 360)]}

\* options.pageSize: not given, empty, "63.5x127", "64x127", "64.5x127",
\* "63x126.5", "A4", "64X127", "axb" and "64x127x1"
PageSizeTexts ==
  {None, Some(<<>>),
   Some(<<"6", "3", ".", "5", "x", "1", "2", "7">>),
   Some(<<"6", "4", "x", "1", "2", "7">>),
   Some(<<"6", "4", ".", "5", "x", "1", "2", "7">>),
   Some(<<"6", "3", "x", "1", "2", "6", ".", "5">>),
   Some(<<"A", "4">>),
   Some(<<"6", "4", "X", "1", "2", "7">>),
   Some(<<"a", "x", "b">>),
   Some(<<"6", "4", "x", "1", "2", "7", "x", "1">>)}

PageSizeInit ==
  /\ Idle
  /\ NoApplication
  /\ \E pages \in UNION {[1..n -> PageSizePages] : n \in 1..MaxPages},
        t \in PageSizeTexts :
       document = Some([pages |-> pages, options |-> [pageSize |-> t]])
  /\ checked = None

\* const raw = await checkPageSize(engines, checkOptions)
CallCheckPageSize ==
  /\ IsSome(document)
  /\ checked = None
  /\ checked' = Some(checkPageSize(Get(document).pages, Get(document).options))
  /\ UNCHANGED <<argv, configFile, pc, config, opts, checkOptions, checksToRun,
                 warned, fileIdx, fileState, checkIdx, results, calls, printed,
                 allReports, jsonOut, anyFail, exit, findings, heap, given,
                 applications, document>>

SpecPageSize == PageSizeInit /\ [][CallCheckPageSize]_vars

\* --------------------------------------------- checkTransparency on its own
\* Alpha values are hundredths.
\*
\* recordAlpha(alpha), on the page's info
recordAlpha(info, alpha) ==
  IF alpha < 100
  THEN [info EXCEPT !.hasAlpha = TRUE, !.alphaValues = PushNew(@, alpha)]
  ELSE info

\* The Device callbacks without beginMask
TransparencyDevice_NoMask(info, ev) ==
  CASE ev.kind = "beginGroup" ->
         recordAlpha([info EXCEPT !.blendModes =
                                    IF ev.blendmode # "Normal"
                                    THEN PushNew(@, ev.blendmode) ELSE @],
                     ev.alpha)
    [] ev.kind = "beginMask" -> info
    [] OTHER -> recordAlpha(info, ev.alpha)

\* The Device callbacks of checkTransparency, for one event of the replay.
TransparencyDevice(info, ev) ==
  CASE ev.kind = "beginGroup" ->
         recordAlpha([info EXCEPT !.blendModes =
                                    IF ev.blendmode # "Normal"
                                    THEN PushNew(@, ev.blendmode) ELSE @],
                     ev.alpha)
    [] ev.kind = "beginMask" -> [info EXCEPT !.hasSoftMask = TRUE]
    [] OTHER -> recordAlpha(info, ev.alpha)

\* page.runPageContents(device, ...), from the k-th event on
RECURSIVE ReplayPage(_, _, _)
ReplayPage(info, events, k) ==
  IF k > Len(events) THEN info
  ELSE ReplayPage(TransparencyDevice(info, events[k]), events, k + 1)

\* parts, for the info of a page
TransparencyParts(info) ==
  (IF Len(info.blendModes) > 0 THEN <<<<"Blend mode", info.blendModes>>>>
   ELSE <<>>)
  \o (IF info.hasAlpha
      THEN <<<<"Alpha transparency",
               CHOOSE a \in {info.alphaValues[i] : i \in DOMAIN info.alphaValues} :
                 \A i \in DOMAIN info.alphaValues : a <= info.alphaValues[i]>>>>
      ELSE <<>>)
  \o (IF info.hasSoftMask THEN <<<<"soft mask">>>> ELSE <<>>)

\* The details checkTransparency pushes for the pages from pageNum on.
RECURSIVE TransparencyDetails(_, _)
TransparencyDetails(pages, pageNum) ==
  IF pageNum > Len(pages) THEN <<>>
  ELSE LET info  == ReplayPage([blendModes |-> <<>>, hasAlpha |-> FALSE,
                                alphaValues |-> <<>>, hasSoftMask |-> FALSE],
                               pages[pageNum], 1)
           parts == TransparencyParts(info)
       IN (IF Len(parts) > 0
           THEN <<[page |-> pageNum, message |-> <<pageNum, parts>>,
                   status |-> "warn"]>>
           ELSE <<>>)
          \o TransparencyDetails(pages, pageNum + 1)

\* checkTransparency(engines)
checkTransparency(pages) ==
  LET details == TransparencyDetails(pages, 1)
      pagesWithTransparency == [i \in DOMAIN details |-> details[i].page]
  IN [check |-> "Transparency",
      status |-> IF Len(pagesWithTransparency) > 0 THEN "warn" ELSE "pass",
      summary |-> IF Len(pagesWithTransparency) > 0
                  THEN <<"Transparency detected on", pagesWithTransparency>>
                  ELSE <<"No transparency detected">>,
      details |-> details]

\* The content of a page: nothing, opaque and half-transparent fills, images,
\* groups with and without a blend mode or an alpha, a soft mask, and
\* several of these.
TransparencyPageContents ==
  LET draw(kind, alpha) == [kind |-> kind, alpha |-> alpha]
      group(blendmode, alpha) == [kind |-> "beginGroup",
                                  blendmode |-> blendmode, alpha |-> alpha]
      mask == [kind |-> "beginMask"]
  IN {<<>>, <<draw("fillPath", 100)>>, <<draw("fillText", 50)>>,
      <<group("Normal", 100), draw("strokePath", 100)>>,
      <<group("Multiply", 100)>>, <<group("Normal", 50)>>, <<mask>>,
      <<draw("fillImage", 50), draw("fillImageMask", 30),
        draw("strokeText", 50)>>,
      <<group("Multiply", 100), group("Screen", 100), mask>>,
      <<mask, draw("fillPath", 100)>>}

TransparencyInit ==
  /\ Idle
  /\ NoApplication
  /\ \E pages \in UNION {[1..n -> TransparencyPageContents] :
                          n \in 1..MaxPages} :
       document = Some([pages |-> pages])
  /\ checked = None

\* const raw = await checkTransparency(engines, checkOptions)
CallCheckTransparency ==
  /\ IsSome(document)
  /\ checked = None
  /\ checked' = Some(checkTransparency(Get(document).pages))
  /\ UNCHANGED <<argv, configFile, pc, config, opts, checkOptions, checksToRun,
                 warned, fileIdx, fileState, checkIdx, results, calls, printed,
                 allReports, jsonOut, anyFail, exit, findings, heap, given,
                 applications, document>>

SpecTransparency == TransparencyInit /\ [][CallCheckTransparency]_vars

\* ------------------------------------------- checkPdfxCompliance on its own
\* A PDF string or name that is absent, null or of another type is None.
\*
\* subtype.startsWith("GTS_PDFX"), for the subtypes of PdfxIntents
StartsWithPdfx(subtype) == subtype \in {"GTS_PDFX", "GTS_PDFX1a"}

\* The details an entry of OutputIntents yields, each of them a warning
PdfxIntentDetails_Warns(raw) ==
  IF ~IsSome(raw) THEN <<>>
  ELSE <<[message |-> <<"OutputIntent">>, status |-> "warn"]>>

\* The details an entry of the OutputIntents array yields: none for an entry
\* that is null or does not resolve.
PdfxIntentDetails(raw) ==
  IF ~IsSome(raw) THEN <<>>
  ELSE LET intent       == Get(raw)
           subtype      == IF IsSome(intent.S) THEN Get(intent.S)
                           ELSE "unknown"
           conditionId  == IF IsSome(intent.OutputConditionIdentifier)
                           THEN Get(intent.OutputConditionIdentifier) ELSE ""
           isPdfx       == StartsWithPdfx(subtype)
           parts        == <<subtype>>
                           \o (IF conditionId # "" THEN <<conditionId>>
                               ELSE <<>>)
                           \o (IF IsSome(intent.Info) /\ Get(intent.Info) # ""
                               THEN <<Get(intent.Info)>> ELSE <<>>)
                           \o (IF IsSome(intent.RegistryName)
                                  /\ Get(intent.RegistryName) # ""
                               THEN <<Get(intent.RegistryName)>> ELSE <<>>)
       IN <<[message |-> <<IF isPdfx THEN "PDF/X OutputIntent"
                           ELSE "OutputIntent", parts>>,
             status |-> "pass"]>>

\* for (let i = 0; i < len; i++) over the OutputIntents array, from i on
RECURSIVE PdfxIntentsFrom(_, _)
PdfxIntentsFrom(items, i) ==
  IF i > Len(items) THEN <<>>
  ELSE PdfxIntentDetails(items[i]) \o PdfxIntentsFrom(items, i + 1)

\* pdfxCondition: the condition identifier of the last PDF/X intent that has
\* one, None if there is none
PdfxCondition(items) ==
  LET having == {i \in DOMAIN items :
                   /\ IsSome(items[i])
                   /\ IsSome(Get(items[i]).S)
                   /\ StartsWithPdfx(Get(Get(items[i]).S))
                   /\ IsSome(Get(items[i]).OutputConditionIdentifier)
                   /\ Get(Get(items[i]).OutputConditionIdentifier) # ""}
  IN IF having = {} THEN None
     ELSE Get(items[CHOOSE i \in having : \A j \in having : j <= i])
            .OutputConditionIdentifier

\* checkPdfxCompliance(engines, _options)
checkPdfxCompliance(doc) ==
  LET pdfxVersion == IF /\ IsSome(doc.Info)
                        /\ IsSome(Get(doc.Info).GTS_PDFXVersion)
                        /\ Get(Get(doc.Info).GTS_PDFXVersion) # ""
                     THEN Get(doc.Info).GTS_PDFXVersion ELSE None
      items == IF IsSome(doc.OutputIntents) /\ Get(doc.OutputIntents).isArray
               THEN Get(doc.OutputIntents).items ELSE <<>>
      details == (IF IsSome(pdfxVersion)
                  THEN <<[message |-> <<"PDF/X version", Get(pdfxVersion)>>,
                          status |-> "pass"]>>
                  ELSE <<>>)
                 \o PdfxIntentsFrom(items, 1)
      pdfxCondition == PdfxCondition(items)
  IN IF Len(details) = 0
     THEN [check |-> "PDF/X Compliance", status |-> "pass",
           summary |-> <<"No PDF/X compliance detected">>,
           details |-> <<[message |-> <<"No PDF/X compliance detected">>,
                          status |-> "pass"]>>]
     ELSE [check |-> "PDF/X Compliance", status |-> "pass",
           summary |-> IF IsSome(pdfxVersion) /\ IsSome(pdfxCondition)
                       THEN <<Get(pdfxVersion), Get(pdfxCondition)>>
                       ELSE IF IsSome(pdfxVersion) THEN <<Get(pdfxVersion)>>
                            ELSE IF IsSome(pdfxCondition)
                                 THEN <<"PDF/X", Get(pdfxCondition)>>
                                 ELSE <<"No PDF/X compliance detected">>,
           details |-> details]

\* Entries of an OutputIntents array: null, a full PDF/X intent, a PDF/A
\* intent, one without any key, and a PDF/X intent with an empty condition.
PdfxIntents ==
  {None,
   Some([S |-> Some("GTS_PDFX"), OutputConditionIdentifier |-> Some("FOGRA39"),
         Info |-> Some("Coated"), RegistryName |-> Some("http://www.color.org")]),
   Some([S |-> Some("GTS_PDFA1"), OutputConditionIdentifier |-> Some("sRGB"),
         Info |-> None, RegistryName |-> None]),
   Some([S |-> None, OutputConditionIdentifier |-> None, Info |-> None,
         RegistryName |-> None]),
   Some([S |-> Some("GTS_PDFX1a"), OutputConditionIdentifier |-> Some(""),
         Info |-> Some(""), RegistryName |-> None])}

PdfxInit ==
  /\ Idle
  /\ NoApplication
  /\ \E info \in {None, Some([GTS_PDFXVersion |-> None]),
                  Some([GTS_PDFXVersion |-> Some("PDF/X-4")]),
                  Some([GTS_PDFXVersion |-> Some("")])},
        intents \in {None, Some([isArray |-> FALSE, items |-> <<>>])}
                    \cup {Some([isArray |-> TRUE, items |-> a]) :
                            a \in UNION {[1..n -> PdfxIntents] :
                                         n \in 0..MaxIntents}} :
       document = Some([Info |-> info, OutputIntents |-> intents])
  /\ checked = None

\* const raw = await checkPdfxCompliance(engines, checkOptions)
CallCheckPdfxCompliance ==
  /\ IsSome(document)
  /\ checked = None
  /\ checked' = Some(checkPdfxCompliance(Get(document)))
  /\ UNCHANGED <<argv, configFile, pc, config, opts, checkOptions, checksToRun,
                 warned, fileIdx, fileState, checkIdx, results, calls, printed,
                 allReports, jsonOut, anyFail, exit, findings, heap, given,
                 applications, document>>

SpecPdfx == PdfxInit /\ [][CallCheckPdfxCompliance]_vars

\* ------------------------------------------------------------- claims
Exited == pc = "exited"

\* The file loop was entered: the first file argument has been looked at.
ReachedFiles == fileState[1] # "pending"

ExitCodeIs(n) == IsSome(exit) /\ Get(exit).code = n

EndedBy(how) == IsSome(exit) /\ Get(exit).by = how

\* Some file produced a result with status fail after severity adjustment.
FailProduced == \E k \in DOMAIN calls : calls[k].result.status = "fail"

SomeMissing == \E f \in Files : fileState[f] = "missing"

CallsOf(f) == SelectSeq(calls, LAMBDA c : c.file = f)

NamesOf(cs) == [i \in DOMAIN cs |-> cs[i].name]

\* The results the reporters were handed for file f, None when there was no
\* report for it.
ReportOf(f) ==
  IF \E i \in DOMAIN printed : printed[i].file = f
  THEN Some(printed[CHOOSE i \in DOMAIN printed : printed[i].file = f].results)
  ELSE IF \E i \in DOMAIN allReports : allReports[i].file = f
       THEN Some(allReports[CHOOSE i \in DOMAIN allReports :
                              allReports[i].file = f].results)
       ELSE None

\* An exception left the action for a reason other than a check: loadPdf
\* rejected, or a report held a value that is no result.
EscapedElsewhere ==
  /\ EndedBy("uncaught")
  /\ \/ fileState[fileIdx] = "loadError"
     \/ \E k \in DOMAIN calls : calls[k].raw = NotAResult

C2_LoadFailureKeepsBatch ==
  \A f \in Files :
    fileState[f] = "loadError" =>
      /\ CallsOf(f) = <<>>
      /\ Exited => \A g \in Files : g > f => fileState[g] # "pending"

ReportedLists ==
  {printed[i].results : i \in DOMAIN printed}
  \cup {allReports[i].results : i \in DOMAIN allReports}

\* C5 as stated: every CheckResult handed to a reporter has the worst status
\* of its details, pass when it has none.
C5_StatusIsWorstDetail ==
  \A rs \in ReportedLists : \A i \in DOMAIN rs :
    rs[i] # NotAResult => rs[i].status = WorstOf(rs[i].details)

ConfigGives(f) == IsSome(configFile) /\ IsSome(Get(configFile)[f])

ConfigValue(f) == Get(Get(configFile)[f])

\* The profile in force: --profile, else the config file's, else standard.
SelectedProfile ==
  IF IsSome(argv.opts.profile) THEN Get(argv.opts.profile)
  ELSE IF ConfigGives("profile") THEN ConfigValue("profile")
  ELSE "standard"

\* The number a command-line text denotes, in tenths.
Denotes(text) == Get(ToNumber(text))

\* The value precedence gives a numeric or enumerated threshold: command
\* line, else config file, else profile.
ByPrecedence(f, profileField) ==
  IF IsSome(argv.opts[f])
  THEN (IF f = "colorSpace" THEN Get(argv.opts[f]) ELSE Denotes(Get(argv.opts[f])))
  ELSE IF ConfigGives(f) THEN ConfigValue(f)
  ELSE PROFILES(SelectedProfile)[profileField]

\* C6: each field of the resolved CheckOptions is the command-line value if
\* given, else the config-file value if given, else the value of the profile
\* in force (--profile, else the config file's profile, else standard).
C6_Precedence ==
  IsSome(checkOptions) =>
    /\ Get(checkOptions).minDpi = ByPrecedence("minDpi", "minDpi")
    /\ Get(checkOptions).colorSpace = ByPrecedence("colorSpace", "colorSpace")
    /\ Get(checkOptions).bleedMm = ByPrecedence("bleed", "bleedMm")
    /\ Get(checkOptions).maxTac = ByPrecedence("maxTac", "maxTac")
    /\ Get(checkOptions).pageSize =
         IF IsSome(argv.opts.pageSize) THEN argv.opts.pageSize
         ELSE IF ConfigGives("pageSize") THEN Some(ConfigValue("pageSize"))
         ELSE PROFILES(SelectedProfile).pageSize

\* --bleed 0 on the command line against a config file that sets bleed and
\* names a profile, under a --profile that names another.
C6_Witness ==
  /\ IsSome(checkOptions)
  /\ argv.opts.bleed = Some(<<"0">>) /\ ConfigGives("bleed")
  /\ IsSome(argv.opts.profile) /\ ConfigGives("profile")
  /\ Get(argv.opts.profile) # ConfigValue("profile")
  /\ Get(checkOptions).bleedMm = 0

\* C7 as stated: checks, format and verbose come from the config file when
\* the command line does not give them.
C7_ConfigDefaults ==
  IsSome(opts) =>
    /\ (~IsSome(argv.opts.checks) /\ ConfigGives("checks")) =>
         Get(opts).checks = ChecksTransform(ConfigValue("checks"))
    /\ (~IsSome(argv.opts.format) /\ ConfigGives("format")) =>
         Get(opts).format = ConfigValue("format")
    /\ (~IsSome(argv.opts.verbose) /\ ConfigGives("verbose")) =>
         Get(opts).verbose = ConfigValue("verbose")

\* The checks the resolved severity map turns off.
OffChecks ==
  IF IsSome(opts)
  THEN {k \in DOMAIN Get(opts).severity : Get(opts).severity[k] = "off"}
  ELSE {}

\* The check field a result of check `name` carries.
CheckFields(name) ==
  IF name \in RegisteredKeys THEN {name, DisplayName(name)} ELSE {name}

\* C8: a check whose resolved severity is off is in no state among the checks
\* to run, is never called and has no entry in any report.
C8_OffNeverRuns ==
  \A name \in OffChecks :
    /\ \A i \in DOMAIN checksToRun : checksToRun[i] # name
    /\ \A k \in DOMAIN calls : calls[k].name # name
    /\ \A rs \in ReportedLists : \A i \in DOMAIN rs :
         rs[i].check \notin CheckFields(name)

\* A selected, registered check was turned off and the run reported the
\* others.
C8_Witness ==
  /\ Exited /\ EndedBy("process.exit") /\ ReportedLists # {}
  /\ \E i \in DOMAIN Get(opts).checks :
       Get(opts).checks[i] \in OffChecks \cap RegisteredKeys

\* The level the --severity string gives check k: that of the last piece
\* check:level naming it with a level, None when there is none.
CliLevel(k) ==
  IF ~IsSome(argv.opts.severity) THEN None
  ELSE LET val == Get(argv.opts.severity)
           at  == {i \in DOMAIN val : /\ Len(val[i]) >= 2
                                      /\ Trim(val[i][1]) = k
                                      /\ Trim(val[i][2]) # ""}
       IN IF at = {} THEN None
          ELSE Some(Trim(val[CHOOSE i \in at : \A j \in at : j <= i][2]))

ConfigLevel(k) ==
  IF ConfigGives("severity") /\ k \in DOMAIN ConfigValue("severity")
  THEN Some(ConfigValue("severity")[k])
  ELSE None

\* The check names a severity entry of the model can carry.
SeverityKeys == RegisteredKeys \cup InheritedKeys \cup {"bogus", "nope", "all"}

\* C9: the resolved severity of every check key is the command-line level if
\* --severity names the key, else the config-file level if the config names
\* it, else none; a check with none has its raw result reported unchanged.
C9_SeverityMerge ==
  IsSome(opts) =>
    /\ DOMAIN Get(opts).severity \subseteq SeverityKeys
    /\ \A k \in SeverityKeys :
         SeverityOf(Get(opts), k) =
           IF IsSome(CliLevel(k)) THEN CliLevel(k) ELSE ConfigLevel(k)
    /\ \A k \in DOMAIN calls :
         (~IsSome(CliLevel(calls[k].name)) /\ ~IsSome(ConfigLevel(calls[k].name)))
           => calls[k].result = calls[k].raw

\* The command line and the config file give one key different levels, and a
\* check that neither names returned fail.
C9_Witness ==
  /\ IsSome(opts)
  /\ \E k \in SeverityKeys :
       /\ IsSome(CliLevel(k)) /\ IsSome(ConfigLevel(k))
       /\ CliLevel(k) # ConfigLevel(k)
  /\ \E k \in DOMAIN calls :
       /\ ~IsSome(CliLevel(calls[k].name)) /\ ~IsSome(ConfigLevel(calls[k].name))
       /\ calls[k].raw.status = "fail"

\* C10: applySeverityOverride with override warn on a result whose status is
\* fail returns a new result object with status warn, the same check name,
\* summary, detail count and detail order, in which every detail that was
\* fail is warn and every other detail is as it was; no object that existed
\* before the call, the input result and its details among them, is changed.
C10_WarnOverride ==
  \A n \in DOMAIN applications :
    LET a   == applications[n]
        old == a.before[a.arg]
        new == a.after[a.ret]
    IN (Get(given).override = Some("warn") /\ old.status = "fail") =>
         /\ a.ret \notin DOMAIN a.before
         /\ new.status = "warn"
         /\ new.check = old.check
         /\ new.summary = old.summary
         /\ Len(new.details) = Len(old.details)
         /\ \A i \in DOMAIN old.details :
              LET od == a.before[old.details[i]]
                  nd == a.after[new.details[i]]
              IN nd = IF od.status = "fail" THEN [od EXCEPT !.status = "warn"]
                      ELSE od
         /\ \A i \in DOMAIN a.before : a.after[i] = a.before[i]

\* A warn override was applied to a fail result that has a fail detail and,
\* after it, a detail that is not fail.
C10_Witness ==
  \E n \in DOMAIN applications :
    LET a   == applications[n]
        old == a.before[a.arg]
    IN /\ Get(given).override = Some("warn")
       /\ old.status = "fail"
       /\ \E i, j \in DOMAIN old.details :
            /\ i < j
            /\ a.before[old.details[i]].status = "fail"
            /\ a.before[old.details[j]].status # "fail"

\* C11: applySeverityOverride returns the object it was given, with no
\* object changed or created, when the override is fail or undefined and
\* when it is warn on a result whose status is pass or warn; and a second
\* application of a warn override returns the value the first returned.
C11_IdentityAndIdempotence ==
  \A n \in DOMAIN applications :
    LET a        == applications[n]
        override == Get(given).override
        old      == a.before[a.arg]
    IN /\ (\/ ~IsSome(override)
           \/ override = Some("fail")
           \/ override = Some("warn") /\ old.status \in {"pass", "warn"})
            => a.ret = a.arg /\ a.after = a.before
       /\ (override = Some("warn") /\ n > 1) =>
            Deref(a.after, a.ret)
              = Deref(applications[n - 1].after, applications[n - 1].ret)

\* A warn override was applied to a fail result and then again to the warn
\* result it returned.
C11_Witness ==
  /\ Len(applications) >= 2
  /\ Get(given).override = Some("warn")
  /\ applications[1].before[applications[1].arg].status = "fail"
  /\ applications[2].before[applications[2].arg].status = "warn"

\* The checks whose resolved severity is warn.
WarnChecks ==
  IF IsSome(opts)
  THEN {k \in DOMAIN Get(opts).severity : Get(opts).severity[k] = "warn"}
  ELSE {}

\* No result reported for a check of severity warn is fail or has a fail
\* detail, a result of the catch branch included.
WarnResultsNeverFail ==
  \A name \in WarnChecks : \A k \in DOMAIN calls :
    calls[k].name = name =>
      /\ calls[k].result.status # "fail"
      /\ \A i \in DOMAIN calls[k].result.details :
           calls[k].result.details[i].status # "fail"

\* C12 as stated: a check of severity warn is never reported fail and never
\* has a fail detail, and a run in which every file exists and no other check
\* fails ends with exit code 0.
C12_WarnNeverFails ==
  /\ WarnResultsNeverFail
  /\ (/\ WarnChecks # {}
      /\ Exited /\ ReachedFiles /\ ~SomeMissing
      /\ \A k \in DOMAIN calls :
           calls[k].name \notin WarnChecks => calls[k].result.status # "fail")
       => ExitCodeIs(0)

\* The selected names that are none of the eight registered keys.
UnregisteredSelected ==
  IF IsSome(opts)
  THEN {Get(opts).checks[i] : i \in DOMAIN Get(opts).checks} \ RegisteredKeys
  ELSE {}

\* The selection has been filtered.
Selected == IsSome(opts) /\ pc # "select"

\* C13 as stated: a selected name that is none of the eight registered keys
\* is warned about, is not among the checks to run and is never called; the
\* registered names selected with it, unless turned off, are the checks to
\* run, and the run ends at the selection only when there is none.
C13_UnknownDropped ==
  /\ \A name \in UnregisteredSelected :
       /\ Selected => \E i \in DOMAIN warned : warned[i] = name
       /\ \A i \in DOMAIN checksToRun : checksToRun[i] # name
       /\ \A k \in DOMAIN calls : calls[k].name # name
  /\ Selected =>
       checksToRun = SelectSeq(Get(opts).checks,
                               LAMBDA n : n \in RegisteredKeys \ OffChecks)

\* The number the merged configuration holds for f: the command line's text
\* read as a number (nan when it is none), else the config file's number;
\* None when neither gives one.
MergedNumber(f) ==
  IF IsSome(argv.opts[f])
  THEN LET n == ToNumber(Get(argv.opts[f]))
       IN Some([nan |-> ~IsSome(n), val |-> IF IsSome(n) THEN Get(n) ELSE 0])
  ELSE IF ConfigGives(f) THEN Some([nan |-> FALSE, val |-> ConfigValue(f)])
  ELSE None

\* The word the merged configuration holds for f.
MergedWord(f) ==
  IF IsSome(argv.opts[f]) THEN argv.opts[f]
  ELSE IF ConfigGives(f) THEN Some(ConfigValue(f))
  ELSE None

\* The merged configuration breaks one of the constraints the claim lists.
InvalidMerged ==
  \/ /\ IsSome(MergedNumber("minDpi"))
     /\ \/ Get(MergedNumber("minDpi")).nan
        \/ Get(MergedNumber("minDpi")).val % 10 # 0
        \/ Get(MergedNumber("minDpi")).val <= 0
  \/ /\ IsSome(MergedNumber("bleed"))
     /\ \/ Get(MergedNumber("bleed")).nan
        \/ Get(MergedNumber("bleed")).val < 0
  \/ /\ IsSome(MergedNumber("maxTac"))
     /\ \/ Get(MergedNumber("maxTac")).nan
        \/ Get(MergedNumber("maxTac")).val <= 0
  \/ IsSome(MergedWord("colorSpace"))
       /\ Get(MergedWord("colorSpace")) \notin {"cmyk", "any"}
  \/ IsSome(MergedWord("profile"))
       /\ Get(MergedWord("profile")) \notin
            {"standard", "magazine", "newspaper", "large-format"}
  \/ IsSome(MergedWord("format"))
       /\ Get(MergedWord("format")) \notin {"text", "json"}
  \/ \E k \in SeverityKeys :
       LET level == IF IsSome(CliLevel(k)) THEN CliLevel(k) ELSE ConfigLevel(k)
       IN IsSome(level) /\ Get(level) \notin {"fail", "warn", "off"}

\* C14: when the merged configuration is invalid, no file is ever loaded or
\* looked for, no check is ever called, and the action never gets past
\* option resolution other than by exiting with code 1.
C14_InvalidOptionsExit ==
  InvalidMerged =>
    /\ \A f \in Files : fileState[f] = "pending"
    /\ calls = <<>>
    /\ pc \in {"loadConfig", "resolve", "exited"}
    /\ Exited => ExitCodeIs(1) /\ EndedBy("process.exit")

\* A run given --min-dpi 0 ended with code 1 with its file untouched.
C14_Witness ==
  /\ argv.opts.minDpi = Some(<<"0">>)
  /\ InvalidMerged
  /\ Exited /\ ExitCodeIs(1)
  /\ fileState = <<"pending">>

\* The entries of the font dictionaries of the document's pages, each with
\* the page it is on.
ReferencedFonts ==
  UNION {{[page |-> i, font |-> Get(document).pages[i][j]] :
            j \in DOMAIN Get(document).pages[i]} :
         i \in DOMAIN Get(document).pages}

\* The descriptor that decides whether a font is embedded: its own, or its
\* descendant font's for a Type0 font (none when it has no descendant).
DecidingDescriptor(font) ==
  IF font.subtype # "Type0" THEN font.descriptor
  ELSE IF font.descendants = <<>> THEN None
  ELSE font.descendants[1].descriptor

IsEmbedded(font) ==
  /\ IsSome(DecidingDescriptor(font))
  /\ Get(DecidingDescriptor(font)) \cap {"FontFile", "FontFile2", "FontFile3"} # {}

\* The name a font goes by: its descendant font's for a Type0 font that has
\* one with a name, else its BaseFont, else its key in the dictionary.
ResolvedName(font) ==
  IF /\ font.subtype = "Type0" /\ font.descendants # <<>>
     /\ IsSome(font.descendants[1].baseFont)
  THEN Get(font.descendants[1].baseFont)
  ELSE IF IsSome(font.baseFont) THEN Get(font.baseFont) ELSE font.key

HasSubsetPrefix(name) ==
  \E i \in DOMAIN name :
    /\ i = 7 /\ name[i] = "+"
    /\ \A j \in 1..6 : name[j] \in UpperCase

\* Every composite font of the document has its descendant font.
CompositesComplete ==
  \A r \in ReferencedFonts :
    r.font.subtype = "Type0" => r.font.descendants # <<>>

\* C15 as stated, for documents whose composite fonts have their descendant
\* font: checkFonts returns fail if some font referenced by some page is not
\* embedded, else warn if some embedded font has a subset-prefixed name, else
\* pass.
C15_FontsStatus ==
  (IsSome(checked) /\ CompositesComplete) =>
    Get(checked).status =
      IF \E r \in ReferencedFonts : ~IsEmbedded(r.font) THEN "fail"
      ELSE IF \E r \in ReferencedFonts :
                IsEmbedded(r.font) /\ HasSubsetPrefix(ResolvedName(r.font))
           THEN "warn"
           ELSE "pass"

\* C16 as stated, for documents whose composite fonts have their descendant
\* font: every resolved base font name referenced in the document has exactly
\* one detail naming it in the Fonts result, on the first page that
\* references it.
C16_OneDetailPerFont ==
  (IsSome(checked) /\ CompositesComplete) =>
    \A r \in ReferencedFonts :
      LET name  == ResolvedName(r.font)
          first == CHOOSE p \in {q.page : q \in {x \in ReferencedFonts :
                                               ResolvedName(x.font) = name}} :
                     \A q \in {x \in ReferencedFonts :
                                 ResolvedName(x.font) = name} : p <= q.page
          naming == {i \in DOMAIN Get(checked).details :
                       Get(checked).details[i].message[2] = name}
      IN /\ Cardinality(naming) = 1
         /\ \A i \in naming : Get(checked).details[i].page = first

\* The least of the four margins, in 1/720 mm, between the TrimBox and the
\* reference box of a page: the BleedBox if it differs from the MediaBox,
\* else the MediaBox.
MinMargin(page) ==
  LET ref  == IF page.bleedBox # page.mediaBox THEN page.bleedBox
              ELSE page.mediaBox
      trim == page.trimBox
      ms   == {trim.x - ref.x, trim.y - ref.y,
               ref.x + ref.width - (trim.x + trim.width),
               ref.y + ref.height - (trim.y + trim.height)}
  IN 254 * (CHOOSE m \in ms : \A n \in ms : m <= n)

\* C17 as stated: checkBleedTrim emits one detail per page, in page order:
\* warn if the TrimBox equals the MediaBox, else fail if the least margin is
\* strictly less than options.bleedMm, else pass; the status is the worst of
\* them.
C17_BleedPerPage ==
  IsSome(checked) =>
    LET pages    == Get(document).pages
        required == Get(document).options.bleedMm
        expected(i) ==
          IF pages[i].trimBox = pages[i].mediaBox THEN "warn"
          ELSE IF MinMargin(pages[i]) < required THEN "fail" ELSE "pass"
    IN /\ Len(Get(checked).details) = Len(pages)
       /\ \A i \in DOMAIN pages :
            /\ Get(checked).details[i].page = i
            /\ Get(checked).details[i].status = expected(i)
       /\ Get(checked).status = WorstOf(Get(checked).details)

\* 72 * pixels / points as a fraction, for a placement drawn with a size.
ExactDpi(placement) ==
  LET w == Hypot(placement.ctm[1], placement.ctm[2])
      h == Hypot(placement.ctm[3], placement.ctm[4])
      x == [num |-> 72 * placement.pixelWidth, den |-> w]
      y == [num |-> 72 * placement.pixelHeight, den |-> h]
  IN IF y.num * x.den < x.num * y.den THEN y ELSE x

HasPixels(placement) == placement.pixelWidth # 0 /\ placement.pixelHeight # 0

HasSize(placement) ==
  /\ Hypot(placement.ctm[1], placement.ctm[2]) > 0
  /\ Hypot(placement.ctm[3], placement.ctm[4]) > 0

\* C18 as stated: for every placement with pixels checkResolution emits one
\* detail, in page and placement order: fail if effectiveDpi < 0.9 x minDpi,
\* warn if 0.9 x minDpi <= effectiveDpi < minDpi, pass if effectiveDpi >=
\* minDpi, for every placement whose effectiveDpi is defined; the status is
\* the worst of the details, and pass with "No raster images found" when
\* there is none.
C18_ResolutionPerPlacement ==
  IsSome(checked) =>
    LET pages   == Get(document).pages
        minDpi  == Get(document).options.minDpi
        details == Get(checked).details
        expected(pl) ==
          LET e == ExactDpi(pl)
          IN IF 10 * e.num < 9 * minDpi * e.den THEN "fail"
             ELSE IF e.num < minDpi * e.den THEN "warn" ELSE "pass"
    IN /\ \A i \in DOMAIN pages :
            LET placed == SelectSeq(pages[i], HasPixels)
                found  == SelectSeq(details, LAMBDA d : d.page = i)
            IN /\ Len(found) = Len(placed)
               /\ \A k \in DOMAIN placed :
                    HasSize(placed[k]) => found[k].status = expected(placed[k])
       /\ \A k \in DOMAIN details : details[k].page \in DOMAIN pages
       /\ Get(checked).status = WorstOf(details)
       /\ Len(details) = 0 =>
            /\ Get(checked).status = "pass"
            /\ Get(checked).summary = <<"No raster images found">>

\* The ink coverages, in 1/51 percent, the TAC check sees on a page: of every
\* CMYK vector operation and of every sample read from a CMYK image.
SeenCoverages(ops) ==
  UNION {IF ops[k].colorspace # "DeviceCMYK" THEN {}
         ELSE IF ops[k].kind = "fillImage"
              THEN {20 * (px[1] + px[2] + px[3] + px[4]) :
                      px \in SampledPixels(ops[k])}
              ELSE {51 * (ops[k].color[1] + ops[k].color[2]
                          + ops[k].color[3] + ops[k].color[4])} :
         k \in DOMAIN ops}

\* pageMax: the greatest coverage seen on the page, 0 if none.
PageMax(ops) ==
  LET seen == SeenCoverages(ops) \cup {0}
  IN CHOOSE m \in seen : \A n \in seen : n <= m

\* C19 as stated: checkTac emits one detail for each page with pageMax > 0,
\* in page order, and none for a page whose pageMax is 0: fail if pageMax >
\* maxTac, warn if 0.9 x maxTac < pageMax <= maxTac, pass otherwise; the
\* status is the worst of them.
C19_TacPerPage ==
  IsSome(checked) =>
    LET pages   == Get(document).pages
        maxTac  == Get(document).options.maxTac
        details == Get(checked).details
        expected(i) ==
          IF PageMax(pages[i]) > 51 * maxTac THEN "fail"
          ELSE IF 10 * PageMax(pages[i]) > 9 * 51 * maxTac THEN "warn"
               ELSE "pass"
    IN /\ \A i \in DOMAIN pages :
            LET found == SelectSeq(details, LAMBDA d : d.page = i)
            IN IF PageMax(pages[i]) > 0
               THEN Len(found) = 1 /\ found[1].status = expected(i)
               ELSE Len(found) = 0
       /\ \A k \in DOMAIN details : details[k].page \in DOMAIN pages
       /\ \A k \in DOMAIN details :
            k > 1 => details[k - 1].page < details[k].page
       /\ Get(checked).status = WorstOf(details)

\* C19, its example: a page filled with C=0.80, M=0.70, Y=0.70, K=0.90 has a
\* fail detail of 310 % against maxTac 300 and the check fails.
C19_Example ==
  (/\ IsSome(checked)
   /\ Get(document).options.maxTac = 300
   /\ \E k \in DOMAIN Get(document).pages[1] :
        LET op == Get(document).pages[1][k]
        IN op.kind = "fillPath" /\ op.colorspace = "DeviceCMYK"
           /\ op.color = <<80, 70, 70, 90>>)
    => /\ Get(checked).status = "fail"
       /\ Get(checked).details[1].page = 1
       /\ Get(checked).details[1].status = "fail"

\* The drawing operations of the document, whatever their page.
ColorOpsDrawn ==
  UNION {{Get(document).pages[i][k] : k \in DOMAIN Get(document).pages[i]} :
         i \in DOMAIN Get(document).pages}

\* A fill, stroke, text or image-mask operation in an RGB space whose channel
\* values are not all equal, or an RGB image.
IsRgbContent(op) ==
  /\ IsSome(op.cs)
  /\ Get(op.cs).type = "RGB"
  /\ \/ op.kind = "fillImage"
     \/ ~(op.color[1] = op.color[2] /\ op.color[2] = op.color[3])

\* An operation in a space that is none of RGB, DeviceN, Separation, Gray or
\* CMYK.
IsUnrecognised(op) ==
  /\ IsSome(op.cs)
  /\ Get(op.cs).type \notin {"RGB", "Separation", "Gray", "CMYK"}
  /\ ~Get(op.cs).deviceN

GoverningSize(page) ==
  LET box == IF page.trimBox # page.mediaBox THEN page.trimBox
             ELSE page.mediaBox
  IN [w |-> 254 * box.width, h |-> 254 * box.height]

\* Two sizes lie within 0.5 mm of each other on both axes.
SameSize(a, b) ==
  /\ a.w - b.w <= 360 /\ b.w - a.w <= 360
  /\ a.h - b.h <= 360 /\ b.h - a.h <= 360

\* options.pageSize is a text of the form WxH, W and H decimal numbers.
WellFormedSize ==
  /\ IsSome(Get(document).options.pageSize)
  /\ LET parts == SplitX(Get(Get(document).options.pageSize))
     IN /\ Len(parts) = 2
        /\ \A k \in 1..2 :
             /\ parts[k] # <<>>
             /\ \A c \in DOMAIN parts[k] : parts[k][c] \in Digits \cup {"."}

\* The size a well-formed options.pageSize names, in 1/720 mm.
NamedSize ==
  LET parts == SplitX(Get(Get(document).options.pageSize))
  IN [w |-> parseFloat(parts[1]).exact, h |-> parseFloat(parts[2]).exact]

\* C21 as stated: with options.pageSize = "WxH" checkPageSize gives every
\* page a fail detail if its governing size is more than 0.5 mm off W or H
\* and a pass detail otherwise; with no options.pageSize it gives every page a
\* warn detail if its size is more than 0.5 mm off page 1's and a pass detail
\* otherwise; the status is the worst detail status.
C21_PageSizeTolerance ==
  IsSome(checked) =>
    LET pages   == Get(document).pages
        details == Get(checked).details
    IN /\ WellFormedSize =>
            /\ Len(details) = Len(pages)
            /\ \A i \in DOMAIN pages :
                 details[i].status =
                   IF SameSize(GoverningSize(pages[i]), NamedSize)
                   THEN "pass" ELSE "fail"
       /\ Get(document).options.pageSize = None =>
            /\ Len(details) = Len(pages)
            /\ \A i \in DOMAIN pages :
                 details[i].status =
                   IF SameSize(GoverningSize(pages[i]),
                               GoverningSize(pages[1]))
                   THEN "pass" ELSE "warn"
       /\ Get(checked).status = WorstOf(details)

\* C30 as stated: with options.pageSize set to a non-empty text the status of
\* checkPageSize is pass or fail; with it unset the status is pass or warn
\* and the detail of page 1 is pass; either way every page has one detail,
\* in page order.
C30_PageSizeModes ==
  IsSome(checked) =>
    LET pageSize == Get(document).options.pageSize
        details  == Get(checked).details
    IN /\ IsSome(pageSize) /\ Get(pageSize) # <<>> =>
            Get(checked).status \in {"pass", "fail"}
       /\ pageSize = None =>
            /\ Get(checked).status \in {"pass", "warn"}
            /\ details[1].status = "pass"
       /\ Len(details) = Len(Get(document).pages)
       /\ \A i \in DOMAIN details : details[i].page = i

\* A page shows transparency: a group with a blend mode other than Normal, an
\* alpha value below 1, or a soft mask.
ShowsTransparency(events) ==
  \E k \in DOMAIN events :
    \/ events[k].kind = "beginGroup" /\ events[k].blendmode # "Normal"
    \/ events[k].kind # "beginMask" /\ events[k].alpha < 100
    \/ events[k].kind = "beginMask"

\* C22: checkTransparency never returns fail; its status is warn exactly when
\* some page shows transparency and pass otherwise; each page that shows it
\* has exactly one detail, a warn, and every other page has none.
C22_TransparencyWarnsOnly ==
  IsSome(checked) =>
    LET pages   == Get(document).pages
        details == Get(checked).details
    IN /\ Get(checked).status # "fail"
       /\ Get(checked).status = "warn" <=>
            \E i \in DOMAIN pages : ShowsTransparency(pages[i])
       /\ Get(checked).status \in {"pass", "warn"}
       /\ \A i \in DOMAIN pages :
            LET found == SelectSeq(details, LAMBDA d : d.page = i)
            IN IF ShowsTransparency(pages[i])
               THEN Len(found) = 1 /\ found[1].status = "warn"
               ELSE Len(found) = 0
       /\ \A k \in DOMAIN details : details[k].page \in DOMAIN pages

\* A document with a page whose only transparency is a soft mask and a page
\* without any was checked: one warn detail, status warn.
C22_Witness ==
  /\ IsSome(checked)
  /\ Len(Get(document).pages) = 2
  /\ Get(document).pages[1] = <<[kind |-> "fillPath", alpha |-> 100]>>
  /\ Get(document).pages[2] = <<[kind |-> "beginMask"]>>
  /\ Get(checked).status = "warn"
  /\ Len(Get(checked).details) = 1
  /\ Get(checked).details[1].page = 2

\* C23: checkPdfxCompliance returns status pass, and only details of status
\* pass, whatever the Info dictionary and the OutputIntents of the document.
C23_PdfxAlwaysPasses ==
  IsSome(checked) =>
    /\ Get(checked).status = "pass"
    /\ \A i \in DOMAIN Get(checked).details :
         Get(checked).details[i].status = "pass"

\* A document with a PDF/X version, an intent that is not PDF/X and a null
\* entry was checked and has two details.
C23_Witness ==
  /\ IsSome(checked)
  /\ IsSome(Get(document).Info)
  /\ Get(Get(document).Info).GTS_PDFXVersion = Some("PDF/X-4")
  /\ IsSome(Get(document).OutputIntents)
  /\ Len(Get(Get(document).OutputIntents).items) = 2
  /\ Get(Get(document).OutputIntents).items[1] = None
  /\ IsSome(Get(Get(document).OutputIntents).items[2])
  /\ Get(Get(Get(document).OutputIntents).items[2]).S = Some("GTS_PDFA1")
  /\ Len(Get(checked).details) = 2

\* C24 as stated: what the program prints in JSON mode is a single report
\* object when one file argument was given, and an array with one report per
\* file argument when several were given.
C24_JsonShape ==
  IsSome(jsonOut) =>
    IF argv.files = 1
    THEN Get(jsonOut).kind = "object"
    ELSE /\ Get(jsonOut).kind = "array"
         /\ Len(Get(jsonOut).value) = argv.files

\* C24 for runs in which every file argument exists and loads.
C24_JsonShapeAllReported ==
  (IsSome(jsonOut) /\ \A f \in Files : fileState[f] = "reported") =>
    IF argv.files = 1
    THEN Get(jsonOut).kind = "object"
    ELSE /\ Get(jsonOut).kind = "array"
         /\ Len(Get(jsonOut).value) = argv.files

\* At every moment of a run: the check calls made so far are grouped by file
\* in argument order, a later file's calls come only after the earlier file
\* had a call for every selected check, the calls of a file are the selected
\* checks in selection order, and a file that was reported was reported with
\* exactly the results of those calls, one per selected check, in that order.
OneFileAtATime ==
  /\ \A i, j \in DOMAIN calls :
       i < j =>
         /\ calls[i].file <= calls[j].file
         /\ calls[i].file < calls[j].file =>
              Len(CallsOf(calls[i].file)) = Len(checksToRun)
  /\ \A f \in Files :
       /\ Len(CallsOf(f)) <= Len(checksToRun)
       /\ NamesOf(CallsOf(f)) = SubSeq(checksToRun, 1, Len(CallsOf(f)))
       /\ fileState[f] = "reported" =>
            /\ IsSome(ReportOf(f))
            /\ Get(ReportOf(f)) =
                 [k \in DOMAIN checksToRun |-> CallsOf(f)[k].result]

\* C25: files are processed one at a time in argument order and the selected
\* checks of a file run in selection order, each loaded file's result list
\* having one entry per selected check in that order; the CheckOptions value,
\* once built, is the same for every call.
C25_Sequential ==
  /\ []OneFileAtATime
  /\ [][IsSome(checkOptions) => checkOptions' = checkOptions]_vars

\* Two files were reported, each after two or more checks.
C25_Witness ==
  /\ Exited
  /\ argv.files = 2
  /\ \A f \in Files : fileState[f] = "reported"
  /\ Len(checksToRun) >= 2
  /\ Len(calls) = 2 * Len(checksToRun)

\* The selection has been filtered and none of the selected names is a
\* registered check that is not turned off.
NoneRemains ==
  /\ Selected
  /\ \A i \in DOMAIN Get(opts).checks :
       Get(opts).checks[i] \notin RegisteredKeys \ OffChecks

\* C28 as stated: when no check remains after dropping the unknown names and
\* the checks turned off, the process exits with code 1 at the selection: no
\* file is looked at or loaded, no check is called and nothing is reported.
C28_NothingToRun ==
  NoneRemains =>
    /\ Exited /\ ExitCodeIs(1) /\ EndedBy("process.exit")
    /\ \A f \in Files : fileState[f] = "pending"
    /\ calls = <<>>
    /\ printed = <<>> /\ allReports = <<>> /\ jsonOut = None

\* The pages that hold a placement with pixels followed by its double.
DoubledPages ==
  {i \in DOMAIN Get(document).pages :
     LET placed == Get(document).pages[i]
     IN /\ Len(placed) = 2
        /\ HasPixels(placed[1])
        /\ placed[2] = Doubled(placed[1])}

\* C27: doubling the rendered width and height of a placement (a, b, c, d of
\* its transform times two, the pixels unchanged) halves the effective DPI
\* checkResolution computes, within rounding: the resolution of the doubled
\* placement is half that of the placement up to the rounding of the double,
\* and the whole DPI reported for it is within one of half the other's.
C27_DoublingHalvesDpi ==
  IsSome(checked) =>
    \A i \in DoubledPages :
      LET placed == Get(document).pages[i]
          found  == SelectSeq(Get(checked).details, LAMBDA d : d.page = i)
          whole  == EffectiveDpi(placed[1])
          halved == EffectiveDpi(placed[2])
      IN /\ 2 * halved.num * whole.den = whole.num * halved.den
         /\ Len(found) = 2
         /\ 2 * found[2].message[3] - found[1].message[3] \in -1..1

\* checkResolution has reported 300 DPI for 300 pixels on an inch and 150 DPI
\* for the same image on two inches.
C27_Witness ==
  /\ IsSome(checked)
  /\ \E i \in DoubledPages :
       LET found == SelectSeq(Get(checked).details, LAMBDA d : d.page = i)
       IN /\ HasSize(Get(document).pages[i][1])
          /\ Get(document).pages[i][1].ctm = <<72, 0, 0, 72>>
          /\ found[1].message[3] = 300
          /\ found[2].message[3] = 150

\* The loop has been left.
SamplingDone == IsSome(checked) /\ Get(checked).done

\* totalPixels of the image sampled
SampledTotal == Get(document).width * Get(document).height

\* The loop computes the maximum checkTac takes from SampledPixels.
SamplerAgrees ==
  SamplingDone =>
    Get(checked).imageMaxTac =
      Highest({NoInk} \cup {PixelTac(px) : px \in SampledPixels(Get(document))})

\* What C29 says of a state of the loop, with step = max(1, floor(totalPixels
\* / 10000)): the index read last is a multiple of step below totalPixels
\* and the samples read so far are those before it and itself; fewer than
\* 20000 are read; and when the loop is left, ceil(totalPixels / step) have
\* been read, which is totalPixels when totalPixels < 20000.
SamplerCounts ==
  IsSome(checked) =>
    LET loop == Get(checked)
        step == IF SampledTotal \div 10000 > 1
                THEN SampledTotal \div 10000 ELSE 1
    IN /\ IsSome(loop.index) =>
            /\ Get(loop.index) = (loop.read - 1) * step
            /\ Get(loop.index) < SampledTotal
       /\ loop.index = None => loop.read = 0
       /\ loop.read < 20000
       /\ loop.done =>
            /\ loop.read * step >= SampledTotal
            /\ (loop.read - 1) * step < SampledTotal \/ loop.read = 0
            /\ SampledTotal < 20000 => loop.read = SampledTotal

\* C29: the sampler reads exactly ceil(totalPixels / step) pixels with step =
\* max(1, floor(totalPixels / 10000)), which is totalPixels whenever
\* totalPixels < 20000 and always below 20000; the indices read are 0, step,
\* 2 * step, ..., all below totalPixels; and the loop terminates for every
\* image size.
C29_SamplerCount == []SamplerCounts /\ <>SamplingDone

\* The loop has been left after reading all 19999 pixels of an image.
C29_Witness ==
  /\ SamplingDone
  /\ SampledTotal = 19999
  /\ Get(checked).read = 19999

\* C26 as stated: for a CMYK image of any pixel dimensions the sampling loop
\* evaluates no more than about 10000 samples, independent of the resolution;
\* "about 10000" is taken to allow half as many again.
C26_AboutTenThousandSamples ==
  IsSome(checked) => Get(checked).read <= 15000

\* C26, amended: the loop evaluates fewer than 20000 samples whatever the
\* resolution: every pixel of an image of fewer than 20000 pixels, and no
\* more than 15000 samples of a larger one.
C26_FewerThanTwentyThousandSamples ==
  IsSome(checked) =>
    /\ Get(checked).read <= 19999
    /\ Get(checked).read <= SampledTotal
    /\ SampledTotal >= 20000 => Get(checked).read <= 15000
    /\ SamplingDone /\ SampledTotal < 20000 => Get(checked).read = SampledTotal

\* The loop has been left after 15000 samples of an image of 29999 pixels.
C26_Witness ==
  /\ SamplingDone
  /\ SampledTotal = 29999
  /\ Get(checked).read = 15000

====
